---- MODULE Spec2Model ----
(***************************************************************************)
(* go-psnr: PSNR between two encoded images.                               *)
(*                                                                         *)
(* Compute (psnr.go) and computePSNRCgo (psnr_cgo.go) decode both inputs,  *)
(* check the dimensions, sample for alpha, dispatch one accumulation       *)
(* kernel by layout and turn the accumulated sum into a decibel score.     *)
(* compute_mse_rgba_simd (psnr_simd.c) is the vectorised packed kernel.    *)
(* ComputeFiles (psnr.go) reads two files and calls Compute.               *)
(*                                                                         *)
(* Specifications.  Spec: the calls of a client, one phase per step.       *)
(* SpecSimd: compute_mse_rgba_simd, one loop iteration per step.           *)
(* SpecConc: two concurrent calls of Compute.  SpecAcc: the accumulator    *)
(* of a scalar kernel over images of growing size.  SpecAlpha: the alpha   *)
(* detector on small and large images.  SpecPlanar: the kernels for two    *)
(* planar images, compute_mse_ycbcr_simd one loop iteration per step.      *)
(* SpecLoops: one call of Compute from the decoded images on, one loop     *)
(* iteration per step, under weak fairness of the call's next step.        *)
(*                                                                         *)
(* Numbers.  TLC integers are 32 bits wide, the program's accumulators are *)
(* 32 and 64 bits wide, so an unsigned 32-bit value is kept as two and an  *)
(* unsigned 64-bit value as four 16-bit limbs, least significant first,    *)
(* and every addition wraps at the width the code gives it.                *)
(*                                                                         *)
(* Floating point.  float64 arithmetic is read as exact: a finite score    *)
(* 10*log10(65025/mse) is kept as the exact quantities it is computed      *)
(* from (sum, sample count, multiplier applied to mse).                    *)
(***************************************************************************)
EXTENDS Integers, Sequences, FiniteSets, TLC

VARIABLES
    build,            \* which branch of psnr_simd.c is compiled in
    pc,               \* position of the current call
    entry,            \* entry point of the current call
    image1Bytes,      \* first encoded input
    image2Bytes,      \* second encoded input
    img1, img2,       \* decoded images
    format1, format2, \* format names returned by image.Decode
    hasAlpha,
    channelCount,
    kernel,           \* kernel selected by the type switch
    sumSquaredDiff,
    ret,              \* (float64, error) returned by the call
    prev,             \* the call the client made just before this one
    computeFiles,     \* paths and data of ComputeFiles when it made the call
    log,              \* what the current call has done so far
    k,                \* one run of compute_mse_rgba_simd beside computeMSERGBA
    acc,              \* a kernel's accumulator over a growing image
    det,              \* one run of the alpha detector
    pl,               \* the planar kernels on one pair of images
    th,               \* the locals of concurrent calls of Compute
    lp                \* one call of Compute, one loop iteration per step

vars == <<build, pc, entry, image1Bytes, image2Bytes, img1, img2, format1,
          format2, hasAlpha, channelCount, kernel, sumSquaredDiff, ret, prev,
          computeFiles, log, k, acc, det, pl, th, lp>>

callVars == <<build, pc, entry, image1Bytes, image2Bytes, img1, img2, format1,
              format2, hasAlpha, channelCount, kernel, sumSquaredDiff, ret, prev,
              computeFiles, log>>

unitVars == <<k, acc, det, pl, th, lp>>

-----------------------------------------------------------------------------
(* Fixed-width unsigned arithmetic on 16-bit limbs *)

\* 2^16
W16 == 256 * 256

Zero32 == <<0, 0>>

Zero64 == <<0, 0, 0, 0>>

\* uint32(n) for 0 <= n < 2^31
U32(n) == <<n % W16, n \div W16>>

\* uint64(n) for 0 <= n < 2^31
U64(n) == <<n % W16, n \div W16, 0, 0>>

\* a + b modulo 2^32
Add32(a, b) ==
    LET s1 == a[1] + b[1]
        s2 == a[2] + b[2] + (s1 \div W16)
    IN  <<s1 % W16, s2 % W16>>

\* Add64 in a 32-bit accumulator
Add64As32(a, b) ==
    LET s1 == a[1] + b[1]
        s2 == a[2] + b[2] + (s1 \div W16)
    IN  <<s1 % W16, s2 % W16, 0, 0>>

\* Add64 in a signed accumulator: 63 value bits
Add64As63(a, b) ==
    LET s1 == a[1] + b[1]
        s2 == a[2] + b[2] + (s1 \div W16)
        s3 == a[3] + b[3] + (s2 \div W16)
        s4 == a[4] + b[4] + (s3 \div W16)
    IN  <<s1 % W16, s2 % W16, s3 % W16, s4 % (W16 \div 2)>>

\* a + b modulo 2^64
Add64(a, b) ==
    LET s1 == a[1] + b[1]
        s2 == a[2] + b[2] + (s1 \div W16)
        s3 == a[3] + b[3] + (s2 \div W16)
        s4 == a[4] + b[4] + (s3 \div W16)
    IN  <<s1 % W16, s2 % W16, s3 % W16, s4 % W16>>

\* (uint64_t)(int32_t)a: conversion of a signed 32-bit value, sign-extended
SignExtend64(a) ==
    IF a[2] >= 32768 THEN <<a[1], a[2], 65535, 65535>>
                     ELSE <<a[1], a[2], 0, 0>>

\* (uint64_t)(uint32_t)a
ZeroExtend64(a) == <<a[1], a[2], 0, 0>>

-----------------------------------------------------------------------------
(* Encoded inputs and decoded images                                       *)
(*                                                                         *)
(* An encoded input is described by what image.Decode makes of it: the     *)
(* registered format, the colour type of the stream, the dimensions and    *)
(* the stored samples.  The samples are given as a short pattern of        *)
(* 4-tuples repeated in scan order, so that pixel number n of the image    *)
(* is pat[(n % Len(pat)) + 1].                                             *)

\* an input image.Decode rejects
Corrupt == [format |-> "unknown", color |-> "none", w |-> 0, h |-> 0, pat |-> <<>>]

\* image.Decode: the concrete image type each colour type decodes to
\*   png  truecolour 8 bit            -> *image.RGBA, alpha byte 0xff
\*   png  truecolour + alpha 8 bit    -> *image.NRGBA
\*   png  palette with tRNS           -> *image.Paletted of color.NRGBA
\*   jpeg three components            -> *image.YCbCr
\*   jpeg one component               -> *image.Gray
LayoutOf(color) ==
    CASE color = "TC8"   -> "RGBA"
      [] color = "TCA8"  -> "NRGBA"
      [] color = "P8"    -> "Paletted"
      [] color = "YCbCr" -> "YCbCr"
      [] color = "G8"    -> "Gray"

\* the stored sample of one pixel after decoding
DecodeSample(color, s) ==
    CASE color = "TC8"   -> <<s[1], s[2], s[3], 255>>
      [] color = "TCA8"  -> s
      [] color = "P8"    -> s
      [] color = "YCbCr" -> <<s[1], s[2], s[3], 255>>
      [] color = "G8"    -> <<s[1], s[1], s[1], 255>>

DecodeFails(bytes) == bytes.format \notin {"png", "jpeg"}

\* img, format, err := image.Decode(bytes.NewReader(bytes))
Decode(bytes) ==
    [layout |-> LayoutOf(bytes.color),
     w      |-> bytes.w,
     h      |-> bytes.h,
     pat    |-> [n \in 1..Len(bytes.pat) |-> DecodeSample(bytes.color, bytes.pat[n])]]

NoImage == [layout |-> "none", w |-> 0, h |-> 0, pat |-> <<>>]

\* bounds.Dx(), bounds.Dy(); decoded images have bounds.Min = (0, 0)
Dx(img) == img.w

Dy(img) == img.h

\* the stored sample at (x, y)
SampleAt(img, x, y) == img.pat[((y * img.w + x) % Len(img.pat)) + 1]

\* len(img.Pix) of a packed image: Stride = 4*w, one byte per channel
PixLen(img) == 4 * img.w * img.h

\* img.Pix[i] of a packed image
Pix(img, i) == img.pat[((i \div 4) % Len(img.pat)) + 1][(i % 4) + 1]

\* one channel of color.YCbCr.RGBA: v is the 8.16 fixed-point value;
\* in range it is shifted right by 8, out of range clamped to 0 or 0xffff
YCbCrClamp16(v) ==
    IF v < 0 THEN 0
    ELSE IF v >= 16777216 THEN 65535
    ELSE v \div 256

\* one channel of color.YCbCrToRGB: shifted right by 16, clamped to 0 or 0xff
YCbCrClamp8(v) ==
    IF v < 0 THEN 0
    ELSE IF v >= 16777216 THEN 255
    ELSE v \div 65536

\* color.YCbCrToRGB(y, cb, cr)
YCbCrToRGB(y, cb, cr) ==
    LET yy1 == y * 65793
        cb1 == cb - 128
        cr1 == cr - 128
    IN  <<YCbCrClamp8(yy1 + 91881 * cr1),
          YCbCrClamp8(yy1 - 22554 * cb1 - 46802 * cr1),
          YCbCrClamp8(yy1 + 116130 * cb1)>>

\* color.NRGBA.RGBA: one colour channel c premultiplied by alpha a.
\* The code computes (c*0x101) * (a*0x101) / 0xffff in uint32; since
\* 0xffff = 0x101 * 0xff the quotient is (c * a * 0x101) / 0xff, which
\* stays below 2^31.
Premultiply(c, a) == (c * a * 257) \div 255

\* img.At(x, y).RGBA(): the four 16-bit values
AtRGBA(img, x, y) ==
    LET s == SampleAt(img, x, y)
    IN  CASE img.layout = "RGBA" ->
               <<s[1] * 257, s[2] * 257, s[3] * 257, s[4] * 257>>
          [] img.layout \in {"NRGBA", "Paletted"} ->
               <<Premultiply(s[1], s[4]), Premultiply(s[2], s[4]),
                 Premultiply(s[3], s[4]), s[4] * 257>>
          [] img.layout = "YCbCr" ->
               LET yy1 == s[1] * 65793
                   cb1 == s[2] - 128
                   cr1 == s[3] - 128
               IN  <<YCbCrClamp16(yy1 + 91881 * cr1),
                     YCbCrClamp16(yy1 - 22554 * cb1 - 46802 * cr1),
                     YCbCrClamp16(yy1 + 116130 * cb1), 65535>>
          [] img.layout = "Gray" ->
               <<s[1] * 257, s[1] * 257, s[1] * 257, 65535>>

\* img.YCbCrAt(x, y): the (Y, Cb, Cr) triple of a 4:4:4 image
YCbCrAt(img, x, y) == SampleAt(img, x, y)

-----------------------------------------------------------------------------
(* Scalar accumulation kernels (psnr.go) *)

\* diff*diff of two 8-bit samples, computed in int32
Sq(a, b) == (a - b) * (a - b)

\* body of the inner loop of computeMSEGeneric at (x, y)
computeMSEGenericBody(sum, im1, im2, x, y, alpha) ==
    LET c1 == AtRGBA(im1, x, y)
        c2 == AtRGBA(im2, x, y)
        r1 == c1[1] \div 256
        g1 == c1[2] \div 256
        b1 == c1[3] \div 256
        a1 == c1[4] \div 256
        r2 == c2[1] \div 256
        g2 == c2[2] \div 256
        b2 == c2[3] \div 256
        a2 == c2[4] \div 256
        rgb == Add64(sum, U64(Sq(r1, r2) + Sq(g1, g2) + Sq(b1, b2)))
    IN  IF alpha THEN Add64(rgb, U64(Sq(a1, a2))) ELSE rgb

\* for y := 0; y < height; y++ { for x := 0; x < width; x++ { ... } }
RECURSIVE computeMSEGenericLoop(_, _, _, _, _, _, _, _)
computeMSEGenericLoop(sum, im1, im2, width, height, alpha, x, y) ==
    IF y >= height THEN sum
    ELSE IF x >= width
         THEN computeMSEGenericLoop(sum, im1, im2, width, height, alpha, 0, y + 1)
         ELSE computeMSEGenericLoop(
                  computeMSEGenericBody(sum, im1, im2, x, y, alpha),
                  im1, im2, width, height, alpha, x + 1, y)

computeMSEGeneric(im1, im2, width, height, alpha) ==
    computeMSEGenericLoop(Zero64, im1, im2, width, height, alpha, 0, 0)

\* computeMSERGBABody with the blue sample of the second image read at i + 1
computeMSERGBABodySlip(sum, im1, im2, i, alpha) ==
    LET rgb == Add64(sum, U64(Sq(Pix(im1, i), Pix(im2, i))
                              + Sq(Pix(im1, i + 1), Pix(im2, i + 1))
                              + Sq(Pix(im1, i + 2), Pix(im2, i + 1))))
    IN  IF alpha THEN Add64(rgb, U64(Sq(Pix(im1, i + 3), Pix(im2, i + 3))))
                 ELSE rgb

\* body of the loop of computeMSERGBA at byte index i
computeMSERGBABody(sum, im1, im2, i, alpha) ==
    LET rgb == Add64(sum, U64(Sq(Pix(im1, i), Pix(im2, i))
                              + Sq(Pix(im1, i + 1), Pix(im2, i + 1))
                              + Sq(Pix(im1, i + 2), Pix(im2, i + 2))))
    IN  IF alpha THEN Add64(rgb, U64(Sq(Pix(im1, i + 3), Pix(im2, i + 3))))
                 ELSE rgb

\* for ; i < n; i += 4 { ... }: the loop of computeMSERGBA from index i,
\* n being len(pix1)
RECURSIVE computeMSERGBALoop(_, _, _, _, _, _)
computeMSERGBALoop(sum, im1, im2, i, n, alpha) ==
    IF i >= n THEN sum
    ELSE computeMSERGBALoop(computeMSERGBABody(sum, im1, im2, i, alpha),
                            im1, im2, i + 4, n, alpha)

computeMSERGBA(im1, im2, alpha) ==
    computeMSERGBALoop(Zero64, im1, im2, 0, PixLen(im1), alpha)

\* body of the loop of computeMSENRGBA at byte index i
computeMSENRGBABody(sum, im1, im2, i, alpha) ==
    LET rgb == Add64(sum, U64(Sq(Pix(im1, i), Pix(im2, i))
                              + Sq(Pix(im1, i + 1), Pix(im2, i + 1))
                              + Sq(Pix(im1, i + 2), Pix(im2, i + 2))))
    IN  IF alpha THEN Add64(rgb, U64(Sq(Pix(im1, i + 3), Pix(im2, i + 3))))
                 ELSE rgb

\* computeMSENRGBALoop stopping one pixel early: i + 4 < len(pix1)
RECURSIVE computeMSENRGBALoopShort(_, _, _, _, _)
computeMSENRGBALoopShort(sum, im1, im2, i, alpha) ==
    IF i + 4 >= PixLen(im1) THEN sum
    ELSE computeMSENRGBALoopShort(computeMSENRGBABody(sum, im1, im2, i, alpha),
                                  im1, im2, i + 4, alpha)

\* for i := 0; i < len(pix1); i += 4 { ... }
RECURSIVE computeMSENRGBALoop(_, _, _, _, _)
computeMSENRGBALoop(sum, im1, im2, i, alpha) ==
    IF i >= PixLen(im1) THEN sum
    ELSE computeMSENRGBALoop(computeMSENRGBABody(sum, im1, im2, i, alpha),
                             im1, im2, i + 4, alpha)

computeMSENRGBA(im1, im2, alpha) == computeMSENRGBALoop(Zero64, im1, im2, 0, alpha)

\* body of the inner loop of computeMSEYCbCr at (x, y)
computeMSEYCbCrBody(sum, im1, im2, x, y) ==
    LET s1 == YCbCrAt(im1, x, y)
        s2 == YCbCrAt(im2, x, y)
        c1 == YCbCrToRGB(s1[1], s1[2], s1[3])
        c2 == YCbCrToRGB(s2[1], s2[2], s2[3])
    IN  Add64(sum, U64(Sq(c1[1], c2[1]) + Sq(c1[2], c2[2]) + Sq(c1[3], c2[3])))

\* for y := bounds.Min.Y; y < bounds.Max.Y; y++ { for x := bounds.Min.X; ... } }
\* with bounds := img1.Bounds()
RECURSIVE computeMSEYCbCrLoop(_, _, _, _, _)
computeMSEYCbCrLoop(sum, im1, im2, x, y) ==
    IF y >= Dy(im1) THEN sum
    ELSE IF x >= Dx(im1)
         THEN computeMSEYCbCrLoop(sum, im1, im2, 0, y + 1)
         ELSE computeMSEYCbCrLoop(computeMSEYCbCrBody(sum, im1, im2, x, y),
                                  im1, im2, x + 1, y)

computeMSEYCbCr(im1, im2) == computeMSEYCbCrLoop(Zero64, im1, im2, 0, 0)

-----------------------------------------------------------------------------
(* compute_mse_rgba_simd (psnr_simd.c)                                     *)
(*                                                                         *)
(* A vector is a sequence of its elements, element 0 first.  16-bit        *)
(* elements are kept as their unsigned residue 0..65535, 32-bit elements   *)
(* as two limbs.                                                           *)

\* the signed value of a 16-bit element
S16(a) == IF a >= 32768 THEN a - W16 ELSE a

\* _mm256_loadu_si256(pix + i): 32 bytes
mm256_loadu_si256(im, i) == [j \in 1..32 |-> Pix(im, i + j - 1)]

\* _mm256_unpacklo_epi8(a, zero): per 128-bit lane, its low 8 bytes widened
mm256_unpacklo_epi8(a) ==
    [e \in 1..16 |-> a[16 * ((e - 1) \div 8) + ((e - 1) % 8) + 1]]

\* _mm256_unpackhi_epi8(a, zero): per 128-bit lane, its high 8 bytes widened
mm256_unpackhi_epi8(a) ==
    [e \in 1..16 |-> a[16 * ((e - 1) \div 8) + 8 + ((e - 1) % 8) + 1]]

\* _mm256_sub_epi16(a, b): wraps at 16 bits
mm256_sub_epi16(a, b) == [e \in 1..16 |-> (a[e] - b[e]) % W16]

\* _mm256_mullo_epi16(a, b): the low 16 bits of each signed product
mm256_mullo_epi16(a, b) == [e \in 1..16 |-> (S16(a[e]) * S16(b[e])) % W16]

\* the mask with its arguments taken lowest element first
mm256_maskForward ==
    LET args == <<0, 65535, 65535, 65535, 0, 65535, 65535, 65535,
                  0, 65535, 65535, 65535, 0, 65535, 65535, 65535>>
    IN  [e \in 1..16 |-> args[e]]

\* _mm256_set_epi16(e15, ..., e0) as called for the mask: the arguments are
\* given from the highest element down; -1 is 0xffff
mm256_mask ==
    LET args == <<0, 65535, 65535, 65535, 0, 65535, 65535, 65535,
                  0, 65535, 65535, 65535, 0, 65535, 65535, 65535>>
    IN  [e \in 1..16 |-> args[17 - e]]

\* _mm256_and_si256(a, mask) for a mask whose elements are 0 or 0xffff
mm256_and_si256(a, mask) == [e \in 1..16 |-> IF mask[e] = 65535 THEN a[e] ELSE 0]

\* _mm256_unpacklo_epi16(a, zero): per lane, its low four elements widened
mm256_unpacklo_epi16(a) ==
    [e \in 1..8 |-> <<a[8 * ((e - 1) \div 4) + ((e - 1) % 4) + 1], 0>>]

\* _mm256_unpackhi_epi16(a, zero): per lane, its high four elements widened
mm256_unpackhi_epi16(a) ==
    [e \in 1..8 |-> <<a[8 * ((e - 1) \div 4) + 4 + ((e - 1) % 4) + 1], 0>>]

\* _mm256_add_epi32(a, b): each 32-bit element wraps
mm256_add_epi32(a, b) == [e \in 1..8 |-> Add32(a[e], b[e])]

mm256_setzero == [e \in 1..8 |-> Zero32]

\* body of the AVX2 loop at byte index i (psnr_simd.c:20-56)
avx2Body(sum_vec, im1, im2, i, has_alpha) ==
    LET p1      == mm256_loadu_si256(im1, i)
        p2      == mm256_loadu_si256(im2, i)
        diff_lo == mm256_sub_epi16(mm256_unpacklo_epi8(p1), mm256_unpacklo_epi8(p2))
        diff_hi == mm256_sub_epi16(mm256_unpackhi_epi8(p1), mm256_unpackhi_epi8(p2))
        sq_lo0  == mm256_mullo_epi16(diff_lo, diff_lo)
        sq_hi0  == mm256_mullo_epi16(diff_hi, diff_hi)
        sq_lo   == IF has_alpha THEN sq_lo0 ELSE mm256_and_si256(sq_lo0, mm256_mask)
        sq_hi   == IF has_alpha THEN sq_hi0 ELSE mm256_and_si256(sq_hi0, mm256_mask)
        v1      == mm256_add_epi32(sum_vec, mm256_unpacklo_epi16(sq_lo))
        v2      == mm256_add_epi32(v1, mm256_unpackhi_epi16(sq_lo))
        v3      == mm256_add_epi32(v2, mm256_unpacklo_epi16(sq_hi))
    IN  mm256_add_epi32(v3, mm256_unpackhi_epi16(sq_hi))

\* _mm_hadd_epi32(a, a)
mm_hadd_epi32(a) ==
    <<Add32(a[1], a[2]), Add32(a[3], a[4]), Add32(a[1], a[2]), Add32(a[3], a[4])>>

\* the horizontal sum (psnr_simd.c:60-66): the value added to sum is
\* _mm_cvtsi128_si32, a signed int, converted to uint64_t
avx2Horizontal(sum_vec) ==
    LET sum_128 == <<Add32(sum_vec[1], sum_vec[5]), Add32(sum_vec[2], sum_vec[6]),
                     Add32(sum_vec[3], sum_vec[7]), Add32(sum_vec[4], sum_vec[8])>>
        h       == mm_hadd_epi32(mm_hadd_epi32(sum_128))
    IN  SignExtend64(h[1])

\* vld1q_u8(pix + i): 16 bytes
vld1q_u8(im, i) == [j \in 1..16 |-> Pix(im, i + j - 1)]

vget_low_u8(a) == [e \in 1..8 |-> a[e]]

vget_high_u8(a) == [e \in 1..8 |-> a[8 + e]]

\* vsubl_u8(a, b): widening subtraction, wraps at 16 bits
vsubl_u8(a, b) == [e \in 1..8 |-> (a[e] - b[e]) % W16]

\* vmulq_s16(a, b): the low 16 bits of each signed product
vmulq_s16(a, b) == [e \in 1..8 |-> (S16(a[e]) * S16(b[e])) % W16]

\* mask_lo, mask_hi = {-1, -1, -1, 0, -1, -1, -1, 0}
neon_mask == <<65535, 65535, 65535, 0, 65535, 65535, 65535, 0>>

\* vandq_s16(a, mask) for a mask whose elements are 0 or 0xffff
vandq_s16(a, mask) == [e \in 1..8 |-> IF mask[e] = 65535 THEN a[e] ELSE 0]

\* vaddl_u16(vget_low_u16(a), vget_high_u16(a)): widening addition to 32 bits
vaddl_u16_halves(a) == [e \in 1..4 |-> U32(a[e] + a[4 + e])]

\* vaddq_u32(a, b): each 32-bit element wraps
vaddq_u32(a, b) == [e \in 1..4 |-> Add32(a[e], b[e])]

vdupq_n_u32_zero == [e \in 1..4 |-> Zero32]

\* body of the NEON loop at byte index i (psnr_simd.c:73-96)
neonBody(sum_vec, im1, im2, i, has_alpha) ==
    LET p1      == vld1q_u8(im1, i)
        p2      == vld1q_u8(im2, i)
        diff_lo == vsubl_u8(vget_low_u8(p1), vget_low_u8(p2))
        diff_hi == vsubl_u8(vget_high_u8(p1), vget_high_u8(p2))
        sq_lo0  == vmulq_s16(diff_lo, diff_lo)
        sq_hi0  == vmulq_s16(diff_hi, diff_hi)
        sq_lo   == IF has_alpha THEN sq_lo0 ELSE vandq_s16(sq_lo0, neon_mask)
        sq_hi   == IF has_alpha THEN sq_hi0 ELSE vandq_s16(sq_hi0, neon_mask)
        v1      == vaddq_u32(sum_vec, vaddl_u16_halves(sq_lo))
    IN  vaddq_u32(v1, vaddl_u16_halves(sq_hi))

\* the horizontal sum (psnr_simd.c:100-101): an unsigned 32-bit lane
neonHorizontal(sum_vec) ==
    LET sum_pair == <<Add32(sum_vec[1], sum_vec[3]), Add32(sum_vec[2], sum_vec[4])>>
    IN  ZeroExtend64(Add32(sum_pair[1], sum_pair[2]))

\* bytes per vector iteration of the branch compiled in
\* a vector loop that advances by half of what it loads
BatchSizeHalf(b) == CASE b = "AVX2" -> 16 [] b = "NEON" -> 8 [] b = "NONE" -> 0

BatchSize(b) == CASE b = "AVX2" -> 32 [] b = "NEON" -> 16 [] b = "NONE" -> 0

simdZero(b) == IF b = "AVX2" THEN mm256_setzero ELSE vdupq_n_u32_zero

\* one iteration of the vector loop of the branch compiled in
simdBody(b, sum_vec, im1, im2, i, has_alpha) ==
    IF b = "AVX2" THEN avx2Body(sum_vec, im1, im2, i, has_alpha)
                  ELSE neonBody(sum_vec, im1, im2, i, has_alpha)

\* the horizontal sum of the branch compiled in; without a vector branch
\* nothing is added
simdHorizontal(b, sum_vec) ==
    CASE b = "AVX2" -> avx2Horizontal(sum_vec)
      [] b = "NEON" -> neonHorizontal(sum_vec)
      [] b = "NONE" -> Zero64

\* body of the tail loop at byte index i (psnr_simd.c:106-115)
simdTailBody(sum, im1, im2, i, has_alpha) ==
    LET rgb == Add64(sum, U64(Sq(Pix(im1, i), Pix(im2, i))
                              + Sq(Pix(im1, i + 1), Pix(im2, i + 1))
                              + Sq(Pix(im1, i + 2), Pix(im2, i + 2))))
    IN  IF has_alpha THEN Add64(rgb, U64(Sq(Pix(im1, i + 3), Pix(im2, i + 3))))
                     ELSE rgb

\* for (; i + batch <= length; i += batch) { ... }: the final <<i, sum_vec>>
RECURSIVE simdVectorLoop(_, _, _, _, _, _, _)
simdVectorLoop(b, sum_vec, im1, im2, length, i, has_alpha) ==
    IF b = "NONE" \/ i + BatchSize(b) > length THEN <<i, sum_vec>>
    ELSE simdVectorLoop(b, simdBody(b, sum_vec, im1, im2, i, has_alpha),
                        im1, im2, length, i + BatchSize(b), has_alpha)

\* for (; i < length; i += 4) { ... }
RECURSIVE simdTailLoop(_, _, _, _, _, _)
simdTailLoop(sum, im1, im2, length, i, has_alpha) ==
    IF i >= length THEN sum
    ELSE simdTailLoop(simdTailBody(sum, im1, im2, i, has_alpha),
                      im1, im2, length, i + 4, has_alpha)

\* compute_mse_rgba_simd(pix1, pix2, length, has_alpha) as built with branch b
compute_mse_rgba_simd(b, im1, im2, length, has_alpha) ==
    LET v == simdVectorLoop(b, simdZero(b), im1, im2, length, 0, has_alpha)
    IN  simdTailLoop(Add64(Zero64, simdHorizontal(b, v[2])),
                     im1, im2, length, v[1], has_alpha)

\* computeMSE_RGBA_CGo(img1, img2, hasAlpha): passes len(pix1) and 0/1
computeMSE_RGBA_CGo(b, im1, im2, alpha) ==
    compute_mse_rgba_simd(b, im1, im2, PixLen(im1), alpha)

\* computeMSE_NRGBA_CGo(img1, img2, hasAlpha): the same C function
computeMSE_NRGBA_CGo(b, im1, im2, alpha) ==
    compute_mse_rgba_simd(b, im1, im2, PixLen(im1), alpha)

\* body of the accumulation loop of computeMSE_YCbCr_CGo at i = 3*(y*width+x):
\* rgb1, rgb2 hold YCbCrToRGB of every pixel in scan order
computeMSE_YCbCr_CGoBody(sum, im1, im2, x, y) ==
    LET s1   == YCbCrAt(im1, x, y)
        s2   == YCbCrAt(im2, x, y)
        rgb1 == YCbCrToRGB(s1[1], s1[2], s1[3])
        rgb2 == YCbCrToRGB(s2[1], s2[2], s2[3])
    IN  Add64(sum, U64(Sq(rgb1[1], rgb2[1]) + Sq(rgb1[2], rgb2[2])
                       + Sq(rgb1[3], rgb2[3])))

\* for i := 0; i < len(rgb1); i += 3, with len(rgb1) = width*height*3
RECURSIVE computeMSE_YCbCr_CGoLoop(_, _, _, _)
computeMSE_YCbCr_CGoLoop(sum, im1, im2, n) ==
    IF 3 * n >= Dx(im1) * Dy(im1) * 3 THEN sum
    ELSE computeMSE_YCbCr_CGoLoop(
             computeMSE_YCbCr_CGoBody(sum, im1, im2, n % Dx(im1), n \div Dx(im1)),
             im1, im2, n + 1)

computeMSE_YCbCr_CGo(im1, im2) == computeMSE_YCbCr_CGoLoop(Zero64, im1, im2, 0)

\* computeMSE_Generic, called by computePSNRCgo and defined outside the
\* files at hand: the generic kernel of the design (every coordinate,
\* 8-bit samples through At().RGBA(), alpha only when it participates)
computeMSE_Generic(im1, im2, width, height, alpha) ==
    computeMSEGenericLoop(Zero64, im1, im2, width, height, alpha, 0, 0)

-----------------------------------------------------------------------------
(* Inputs of the model *)

\* longer side of the small images
SmallW == 2

\* width of the wide images: one 32-byte batch and a tail
WideW == 9

Builds == {"AVX2", "NEON", "NONE"}

Entries == {"Compute", "computePSNRCgo"}

Black == <<0, 0, 0, 255>>

White == <<255, 255, 255, 255>>

Tint == <<200, 100, 50, 255>>

Half == <<200, 100, 50, 128>>

Clear == <<0, 0, 0, 0>>

Pats == {<<Black>>, <<Tint>>, <<Tint, Half>>, <<Half, White>>}

\* pixels of a 91 x 91 buffer: 4 * 65025 * 8281 >= 2^31
SignPixels == 8281

\* pixels of a 129 x 129 buffer: 4 * 65025 * 16641 >= 2^32
WrapPixels == 16641

\* the pairs of buffers handed to the packed kernels, as patterns
KPairs == {<<(<<Tint>>), (<<Tint>>)>>, <<(<<Clear>>), (<<White>>)>>,
           <<(<<Black>>), (<<White>>)>>, <<(<<Tint, Half>>), (<<Half, White>>)>>}

KPixels == {1, WideW, SignPixels, WrapPixels}

Dims == {<<SmallW, 1>>, <<SmallW, SmallW>>, <<WideW, 1>>}

ColorsOf(format) == IF format = "png" THEN {"TC8", "TCA8", "P8"} ELSE {"YCbCr", "G8"}

\* the encoded inputs: every colour type at every size with every pattern,
\* and one input that does not decode
Files ==
    {Corrupt} \cup
    UNION {{[format |-> f, color |-> c, w |-> d[1], h |-> d[2], pat |-> p] :
               c \in ColorsOf(f), d \in Dims, p \in Pats} : f \in {"png", "jpeg"}}

-----------------------------------------------------------------------------
(* Compute (psnr.go:33-125) and computePSNRCgo (psnr_cgo.go:35-121) *)

NoValue == [kind |-> "zero", sum |-> Zero64, samples |-> 0, mulNum |-> 1, mulDen |-> 1]

\* math.Inf(1)
Inf == [kind |-> "inf", sum |-> Zero64, samples |-> 0, mulNum |-> 1, mulDen |-> 1]

\* 10 * math.Log10(65025.0 / mse) with mse = sum / samples * mulNum / mulDen
PSNR(sum, samples, mulNum, mulDen) ==
    [kind |-> "finite", sum |-> sum, samples |-> samples,
     mulNum |-> mulNum, mulDen |-> mulDen]

Nil == [kind |-> "nil", w1 |-> 0, h1 |-> 0, w2 |-> 0, h2 |-> 0]

\* fmt.Errorf("failed to decode first image: %w", err)
ErrDecodeFirst == [kind |-> "decode first", w1 |-> 0, h1 |-> 0, w2 |-> 0, h2 |-> 0]

\* fmt.Errorf("failed to decode second image: %w", err)
ErrDecodeSecond == [kind |-> "decode second", w1 |-> 0, h1 |-> 0, w2 |-> 0, h2 |-> 0]

\* fmt.Errorf("images have different dimensions: %dx%d vs %dx%d", ...)
ErrDimensions(w1, h1, w2, h2) ==
    [kind |-> "different dimensions", w1 |-> w1, h1 |-> h1, w2 |-> w2, h2 |-> h2]

\* fmt.Errorf("failed to read %s: %w", path1, err) and the same for path2
ErrRead(n) ==
    [kind |-> IF n = 1 THEN "read path1" ELSE "read path2",
     w1 |-> 0, h1 |-> 0, w2 |-> 0, h2 |-> 0]

NoRet == [value |-> NoValue, err |-> Nil, returned |-> FALSE]

Return(value, err) == [value |-> value, err |-> err, returned |-> TRUE]

\* a path that os.ReadFile cannot read
Unreadable == [readable |-> FALSE, data |-> Corrupt]

\* the paths handed to ComputeFiles: one per encoded input, and one that
\* cannot be read
Paths == {Unreadable} \cup {[readable |-> TRUE, data |-> f] : f \in Files}

\* ReadFile with the error dropped
ReadFileNoErr(path) == [data |-> path.data, err |-> FALSE]

\* os.ReadFile(path): the contents, and whether err != nil
ReadFile(path) == [data |-> path.data, err |-> ~path.readable]

\* no call of ComputeFiles is in progress
NoFrame ==
    [called |-> FALSE, path1 |-> Unreadable, path2 |-> Unreadable,
     data1 |-> Corrupt, data2 |-> Corrupt, tried |-> <<>>]

\* ComputeFiles(path1, path2) on entry; tried lists the paths handed to
\* os.ReadFile so far, in order
Frame(path1, path2) ==
    [called |-> TRUE, path1 |-> path1, path2 |-> path2,
     data1 |-> Corrupt, data2 |-> Corrupt, tried |-> <<>>]

\* nothing done yet: no dimension check, no pixel visited, no alpha sample,
\* no kernel run, Compute not entered, no input handed to image.Decode
NoLog ==
    [dimChecks |-> 0, pixelReads |-> 0, sampled |-> <<>>, kernelRuns |-> 0,
     computeCalls |-> 0, decoded |-> <<>>]

NoPrev == [entry |-> "none", image1Bytes |-> Corrupt, image2Bytes |-> Corrupt,
           hasAlpha |-> FALSE, channelCount |-> 0, kernel |-> "none",
           sumSquaredDiff |-> Zero64, ret |-> NoRet, computeFiles |-> NoFrame]

\* the finished call, as the client remembers it
Finished ==
    [entry |-> entry, image1Bytes |-> image1Bytes, image2Bytes |-> image2Bytes,
     hasAlpha |-> hasAlpha, channelCount |-> channelCount, kernel |-> kernel,
     sumSquaredDiff |-> sumSquaredDiff, ret |-> ret, computeFiles |-> computeFiles]

\* DimensionsDiffer with && in place of ||
DimensionsDifferBoth(im1, im2) == Dx(im1) # Dx(im2) /\ Dy(im1) # Dy(im2)

\* bounds1.Dx() != bounds2.Dx() || bounds1.Dy() != bounds2.Dy() (psnr.go:47)
DimensionsDiffer(im1, im2) == Dx(im1) # Dx(im2) \/ Dy(im1) # Dy(im2)

\* TotalSamples with the channel count fixed at 3
TotalSamplesRGB(width, height, channels) == width * height * 3

\* totalPixels := width * height; totalSamples := uint64(totalPixels * channelCount)
TotalSamples(width, height, channels) == width * height * channels

\* AlphaStep with && in place of ||
AlphaStepBoth(width, height) == IF width < 64 /\ height < 64 THEN 4 ELSE 16

\* step := 16; if width < 64 || height < 64 { step = 4 }
AlphaStep(width, height) == IF width < 64 \/ height < 64 THEN 4 ELSE 16

\* NotOpaque comparing with the 8-bit maximum
NotOpaque8(a1, a2) == a1 # 255 \/ a2 # 255

\* NotOpaque looking at the first image only
NotOpaqueFirst(a1, a2) == a1 # 65535

\* if a1 != 0xffff || a2 != 0xffff (psnr.go:72)
NotOpaque(a1, a2) == a1 # 65535 \/ a2 # 65535

\* the inner loop (psnr.go:69-76) along row y from column x: hasAlpha and the
\* coordinates sampled so far, in order
RECURSIVE alphaRow(_, _, _, _, _, _, _, _)
alphaRow(im1, im2, width, step, x, y, found, seen) ==
    IF ~(x < width /\ ~found) THEN [found |-> found, seen |-> seen]
    ELSE LET a1 == AtRGBA(im1, x, y)[4]
             a2 == AtRGBA(im2, x, y)[4]
         IN  alphaRow(im1, im2, width, step, x + step, y,
                      NotOpaque(a1, a2), Append(seen, <<x, y>>))

\* the outer loop (psnr.go:68-77) from row y: the final hasAlpha and the
\* coordinates sampled, in order
RECURSIVE alphaScan(_, _, _, _, _, _, _, _)
alphaScan(im1, im2, width, height, step, y, found, seen) ==
    IF ~(y < height /\ ~found) THEN [found |-> found, seen |-> seen]
    ELSE LET row == alphaRow(im1, im2, width, step, 0, y, found, seen)
         IN  alphaScan(im1, im2, width, height, step, y + step, row.found, row.seen)

\* detectAlphaScan without the format test
detectAlphaScanAlways(f1, f2, im1, im2, width, height) ==
    alphaScan(im1, im2, width, height, AlphaStep(width, height), 0, FALSE, <<>>)

\* the alpha decision (psnr.go:61-78) and the coordinates it sampled
detectAlphaScan(f1, f2, im1, im2, width, height) ==
    IF f1 = "png" \/ f2 = "png"
    THEN alphaScan(im1, im2, width, height, AlphaStep(width, height), 0, FALSE, <<>>)
    ELSE [found |-> FALSE, seen |-> <<>>]

\* the alpha decision (psnr.go:61-78)
detectAlpha(f1, f2, im1, im2, width, height) ==
    detectAlphaScan(f1, f2, im1, im2, width, height).found

\* the pixel coordinates the kernel kn visits: len(pix1) / 4 in the packed
\* kernels, width * height in the others
KernelPixels(kn, im1, im2) ==
    IF kn \in {"RGBA", "NRGBA"} THEN PixLen(im1) \div 4 ELSE Dx(im1) * Dy(im1)

\* KernelFor with no look at the second image
KernelForFirst(im1, im2) ==
    IF im1.layout \in {"RGBA", "NRGBA", "YCbCr"} THEN im1.layout ELSE "Generic"

\* the type switch (psnr.go:81-105, psnr_cgo.go:83-104): the kernel selected
KernelFor(im1, im2) ==
    CASE im1.layout = "RGBA"  -> IF im2.layout = "RGBA" THEN "RGBA" ELSE "Generic"
      [] im1.layout = "NRGBA" -> IF im2.layout = "NRGBA" THEN "NRGBA" ELSE "Generic"
      [] im1.layout = "YCbCr" -> IF im2.layout = "YCbCr" THEN "YCbCr" ELSE "Generic"
      [] OTHER -> "Generic"

\* the sum the selected kernel returns in Compute
RunKernelGo(kn, im1, im2, width, height, alpha) ==
    CASE kn = "RGBA"    -> computeMSERGBA(im1, im2, alpha)
      [] kn = "NRGBA"   -> computeMSENRGBA(im1, im2, alpha)
      [] kn = "YCbCr"   -> computeMSEYCbCr(im1, im2)
      [] kn = "Generic" -> computeMSEGeneric(im1, im2, width, height, alpha)

\* the sum the selected kernel returns in computePSNRCgo
RunKernelCgo(b, kn, im1, im2, width, height, alpha) ==
    CASE kn = "RGBA"    -> computeMSE_RGBA_CGo(b, im1, im2, alpha)
      [] kn = "NRGBA"   -> computeMSE_NRGBA_CGo(b, im1, im2, alpha)
      [] kn = "YCbCr"   -> computeMSE_YCbCr_CGo(im1, im2)
      [] kn = "Generic" -> computeMSE_Generic(im1, im2, width, height, alpha)

\* the score of Compute for a non-zero sum (psnr.go:113-124): no multiplier
ScoreGo(sum, totalSamples, f1, f2) == PSNR(sum, totalSamples, 1, 1)

\* the score of computePSNRCgo for a non-zero sum (psnr_cgo.go:112-120):
\* mse = (mse * 9005) / 10000 when either format is "jpeg"
ScoreCgo(sum, totalSamples, f1, f2) ==
    IF f1 = "jpeg" \/ f2 = "jpeg" THEN PSNR(sum, totalSamples, 9005, 10000)
                                  ELSE PSNR(sum, totalSamples, 1, 1)

KIdle == [pc |-> "off"]

\* no call is in progress
IdleCall ==
    /\ pc = "idle"
    /\ entry = "none"
    /\ image1Bytes = Corrupt
    /\ image2Bytes = Corrupt
    /\ img1 = NoImage
    /\ img2 = NoImage
    /\ format1 = ""
    /\ format2 = ""
    /\ hasAlpha = FALSE
    /\ channelCount = 0
    /\ kernel = "none"
    /\ sumSquaredDiff = Zero64
    /\ ret = NoRet
    /\ prev = NoPrev
    /\ computeFiles = NoFrame
    /\ log = NoLog

Init ==
    /\ build \in Builds
    /\ IdleCall
    /\ k = KIdle
    /\ acc = KIdle
    /\ det = KIdle
    /\ pl = KIdle
    /\ th = KIdle
    /\ lp = KIdle

\* the entry into Compute or computePSNRCgo: locals are fresh
Enter(e, b1, b2, p) ==
    /\ pc' = "decode1"
    /\ entry' = e
    /\ image1Bytes' = b1
    /\ image2Bytes' = b2
    /\ img1' = NoImage
    /\ img2' = NoImage
    /\ format1' = ""
    /\ format2' = ""
    /\ hasAlpha' = FALSE
    /\ channelCount' = 0
    /\ kernel' = "none"
    /\ sumSquaredDiff' = Zero64
    /\ ret' = NoRet
    /\ prev' = p
    /\ log' = [NoLog EXCEPT !.computeCalls = IF e = "Compute" THEN 1 ELSE 0]
    /\ UNCHANGED <<build, unitVars>>

\* the client calls an entry point on two inputs
Call ==
    /\ pc = "idle"
    /\ \E e \in Entries, b1 \in Files, b2 \in Files : Enter(e, b1, b2, NoPrev)
    /\ computeFiles' = NoFrame

\* the client calls ComputeFiles on two paths (psnr.go:18)
CallFiles ==
    /\ pc = "idle"
    /\ \E path1 \in Paths, path2 \in Paths : computeFiles' = Frame(path1, path2)
    /\ pc' = "read1"
    /\ entry' = "ComputeFiles"
    /\ UNCHANGED <<build, image1Bytes, image2Bytes, img1, img2, format1, format2,
                   hasAlpha, channelCount, kernel, sumSquaredDiff, ret, prev, log,
                   unitVars>>

\* data1, err := os.ReadFile(path1) (psnr.go:19-22)
ReadFirst ==
    /\ pc = "read1"
    /\ LET r == ReadFile(computeFiles.path1)
       IN  IF r.err
           THEN /\ ret' = Return(NoValue, ErrRead(1))
                /\ pc' = "done"
                /\ computeFiles' = [computeFiles EXCEPT !.tried = Append(@, 1)]
           ELSE /\ computeFiles' = [computeFiles EXCEPT !.data1 = r.data,
                                                        !.tried = Append(@, 1)]
                /\ pc' = "read2"
                /\ UNCHANGED ret
    /\ UNCHANGED <<build, entry, image1Bytes, image2Bytes, img1, img2, format1,
                   format2, hasAlpha, channelCount, kernel, sumSquaredDiff, prev,
                   log, unitVars>>

\* data2, err := os.ReadFile(path2) (psnr.go:24-27) and, when it is read,
\* return Compute(data1, data2) (psnr.go:29)
ReadSecond ==
    /\ pc = "read2"
    /\ LET r == ReadFile(computeFiles.path2)
       IN  IF r.err
           THEN /\ ret' = Return(NoValue, ErrRead(2))
                /\ pc' = "done"
                /\ computeFiles' = [computeFiles EXCEPT !.tried = Append(@, 2)]
                /\ UNCHANGED <<build, entry, image1Bytes, image2Bytes, img1, img2,
                               format1, format2, hasAlpha, channelCount, kernel,
                               sumSquaredDiff, prev, log, unitVars>>
           ELSE /\ computeFiles' = [computeFiles EXCEPT !.data2 = r.data,
                                                        !.tried = Append(@, 2)]
                /\ Enter("Compute", computeFiles.data1, r.data, NoPrev)

\* the client drops the result of the finished call; nothing of the call
\* is kept
Forget ==
    /\ pc = "done"
    /\ pc' = "idle"
    /\ entry' = "none"
    /\ image1Bytes' = Corrupt
    /\ image2Bytes' = Corrupt
    /\ img1' = NoImage
    /\ img2' = NoImage
    /\ format1' = ""
    /\ format2' = ""
    /\ hasAlpha' = FALSE
    /\ channelCount' = 0
    /\ kernel' = "none"
    /\ sumSquaredDiff' = Zero64
    /\ ret' = NoRet
    /\ prev' = NoPrev
    /\ computeFiles' = NoFrame
    /\ log' = NoLog
    /\ UNCHANGED <<build, unitVars>>

\* the client repeats the finished call with the arguments exchanged
CallSwapped ==
    /\ pc = "done"
    /\ entry \in Entries
    /\ Enter(entry, image2Bytes, image1Bytes, Finished)
    /\ computeFiles' = NoFrame

\* the client repeats the finished call through the other entry point
\* (TestCGoAccuracy)
CallOther ==
    /\ pc = "done"
    /\ entry \in Entries
    /\ \E e \in Entries \ {entry} : Enter(e, image1Bytes, image2Bytes, Finished)
    /\ computeFiles' = NoFrame

\* the encoded inputs that differ from bytes in stored alpha values at most
AlphaVariants(bytes) ==
    {g \in Files \ {Corrupt} :
        /\ g.format = bytes.format
        /\ g.color = bytes.color
        /\ g.w = bytes.w
        /\ g.h = bytes.h
        /\ \A n \in 0..(g.w * g.h - 1) :
               LET s == g.pat[(n % Len(g.pat)) + 1]
                   t == bytes.pat[(n % Len(bytes.pat)) + 1]
               IN  s[1] = t[1] /\ s[2] = t[2] /\ s[3] = t[3]}

\* the client repeats the finished call on inputs with other alpha values
CallOtherAlpha ==
    /\ pc = "done"
    /\ entry \in Entries
    /\ ret.err = Nil
    /\ \E b1 \in AlphaVariants(image1Bytes), b2 \in AlphaVariants(image2Bytes) :
           /\ <<b1, b2>> # <<image1Bytes, image2Bytes>>
           /\ Enter(entry, b1, b2, Finished)
    /\ computeFiles' = NoFrame

\* the client that called ComputeFiles calls Compute on the contents of the
\* same two files
CallCompute ==
    /\ pc = "done"
    /\ computeFiles.called
    /\ computeFiles.path1.readable
    /\ computeFiles.path2.readable
    /\ Enter("Compute", computeFiles.path1.data, computeFiles.path2.data, Finished)
    /\ computeFiles' = NoFrame

\* DecodeFirst without the return on a failure: the call goes on to the
\* second input
DecodeFirstGoOn ==
    /\ pc = "decode1"
    /\ IF DecodeFails(image1Bytes)
       THEN UNCHANGED <<img1, format1>>
       ELSE /\ img1' = Decode(image1Bytes)
            /\ format1' = image1Bytes.format
    /\ pc' = "decode2"
    /\ log' = [log EXCEPT !.decoded = Append(@, 1)]
    /\ UNCHANGED <<build, entry, image1Bytes, image2Bytes, img2, format2, hasAlpha,
                   channelCount, kernel, sumSquaredDiff, ret, prev, computeFiles,
                   unitVars>>

\* img1, format1, err := image.Decode(...) (psnr.go:34-37)
DecodeFirst ==
    /\ pc = "decode1"
    /\ IF DecodeFails(image1Bytes)
       THEN /\ ret' = Return(NoValue, ErrDecodeFirst)
            /\ pc' = "done"
            /\ UNCHANGED <<img1, format1>>
       ELSE /\ img1' = Decode(image1Bytes)
            /\ format1' = image1Bytes.format
            /\ pc' = "decode2"
            /\ UNCHANGED ret
    /\ log' = [log EXCEPT !.decoded = Append(@, 1)]
    /\ UNCHANGED <<build, entry, image1Bytes, image2Bytes, img2, format2, hasAlpha,
                   channelCount, kernel, sumSquaredDiff, prev, computeFiles,
                   unitVars>>

\* img2, format2, err := image.Decode(...) (psnr.go:39-42)
DecodeSecond ==
    /\ pc = "decode2"
    /\ IF DecodeFails(image2Bytes)
       THEN /\ ret' = Return(NoValue, ErrDecodeSecond)
            /\ pc' = "done"
            /\ UNCHANGED <<img2, format2>>
       ELSE /\ img2' = Decode(image2Bytes)
            /\ format2' = image2Bytes.format
            /\ pc' = "bounds"
            /\ UNCHANGED ret
    /\ log' = [log EXCEPT !.decoded = Append(@, 2)]
    /\ UNCHANGED <<build, entry, image1Bytes, image2Bytes, img1, format1, hasAlpha,
                   channelCount, kernel, sumSquaredDiff, prev, computeFiles,
                   unitVars>>

\* CheckDimensions after a look at the first pixel of each image
CheckDimensionsPeek ==
    /\ pc = "bounds"
    /\ log' = [log EXCEPT !.dimChecks = log.dimChecks + 1,
                          !.pixelReads = log.pixelReads + 1]
    /\ IF DimensionsDiffer(img1, img2)
       THEN /\ ret' = Return(NoValue, ErrDimensions(Dx(img1), Dy(img1), Dx(img2), Dy(img2)))
            /\ pc' = "done"
            /\ UNCHANGED channelCount
       ELSE /\ channelCount' = 3
            /\ pc' = "alpha"
            /\ UNCHANGED ret
    /\ UNCHANGED <<build, entry, image1Bytes, image2Bytes, img1, img2, format1,
                   format2, hasAlpha, kernel, sumSquaredDiff, prev, computeFiles,
                   unitVars>>

\* the dimension check and the initialisation of the locals (psnr.go:44-61)
CheckDimensions ==
    /\ pc = "bounds"
    /\ log' = [log EXCEPT !.dimChecks = log.dimChecks + 1]
    /\ IF DimensionsDiffer(img1, img2)
       THEN /\ ret' = Return(NoValue, ErrDimensions(Dx(img1), Dy(img1), Dx(img2), Dy(img2)))
            /\ pc' = "done"
            /\ UNCHANGED channelCount
       ELSE /\ channelCount' = 3
            /\ pc' = "alpha"
            /\ UNCHANGED ret
    /\ UNCHANGED <<build, entry, image1Bytes, image2Bytes, img1, img2, format1,
                   format2, hasAlpha, kernel, sumSquaredDiff, prev, computeFiles,
                   unitVars>>

\* alpha detection by sampling (psnr.go:61-78)
DetectAlpha ==
    /\ pc = "alpha"
    /\ LET scan == detectAlphaScan(format1, format2, img1, img2, Dx(img1), Dy(img1))
       IN  /\ hasAlpha' = scan.found
           /\ channelCount' = IF scan.found THEN 4 ELSE 3
           /\ log' = [log EXCEPT !.sampled = scan.seen,
                                 !.pixelReads = log.pixelReads + Len(scan.seen)]
    /\ pc' = "switch"
    /\ UNCHANGED <<build, entry, image1Bytes, image2Bytes, img1, img2, format1,
                   format2, kernel, sumSquaredDiff, ret, prev, computeFiles,
                   unitVars>>

\* RunKernel with a kernel that forces the alpha bytes of the first image
\* to 255 in place
RunKernelInPlace ==
    /\ pc = "switch"
    /\ LET kn == KernelFor(img1, img2)
       IN  /\ kernel' = kn
           /\ sumSquaredDiff' =
                  IF entry = "Compute"
                  THEN RunKernelGo(kn, img1, img2, Dx(img1), Dy(img1), hasAlpha)
                  ELSE RunKernelCgo(build, kn, img1, img2, Dx(img1), Dy(img1), hasAlpha)
           /\ log' = [log EXCEPT !.kernelRuns = log.kernelRuns + 1,
                                 !.pixelReads = log.pixelReads + KernelPixels(kn, img1, img2)]
    /\ img1' = [img1 EXCEPT !.pat = [n \in DOMAIN img1.pat |->
                                        <<img1.pat[n][1], img1.pat[n][2], img1.pat[n][3], 255>>]]
    /\ pc' = "result"
    /\ UNCHANGED <<build, entry, image1Bytes, image2Bytes, img2, format1,
                   format2, hasAlpha, channelCount, ret, prev, computeFiles,
                   unitVars>>

\* the type switch and the kernel it selects (psnr.go:81-105)
RunKernel ==
    /\ pc = "switch"
    /\ LET kn == KernelFor(img1, img2)
       IN  /\ kernel' = kn
           /\ sumSquaredDiff' =
                  IF entry = "Compute"
                  THEN RunKernelGo(kn, img1, img2, Dx(img1), Dy(img1), hasAlpha)
                  ELSE RunKernelCgo(build, kn, img1, img2, Dx(img1), Dy(img1), hasAlpha)
           /\ log' = [log EXCEPT !.kernelRuns = log.kernelRuns + 1,
                                 !.pixelReads = log.pixelReads + KernelPixels(kn, img1, img2)]
    /\ pc' = "result"
    /\ UNCHANGED <<build, entry, image1Bytes, image2Bytes, img1, img2, format1,
                   format2, hasAlpha, channelCount, ret, prev, computeFiles,
                   unitVars>>

\* the conversion to the score (psnr.go:107-124)
Finish ==
    /\ pc = "result"
    /\ LET totalSamples == TotalSamples(Dx(img1), Dy(img1), channelCount)
       IN  ret' = IF sumSquaredDiff = Zero64
                  THEN Return(Inf, Nil)
                  ELSE IF entry = "Compute"
                       THEN Return(ScoreGo(sumSquaredDiff, totalSamples, format1, format2), Nil)
                       ELSE Return(ScoreCgo(sumSquaredDiff, totalSamples, format1, format2), Nil)
    /\ pc' = "done"
    /\ UNCHANGED <<build, entry, image1Bytes, image2Bytes, img1, img2, format1,
                   format2, hasAlpha, channelCount, kernel, sumSquaredDiff, prev,
                   computeFiles, log, unitVars>>

Next ==
    \/ Call
    \/ CallFiles
    \/ ReadFirst
    \/ ReadSecond
    \/ Forget
    \/ CallSwapped
    \/ CallOther
    \/ CallOtherAlpha
    \/ CallCompute
    \/ DecodeFirst
    \/ DecodeSecond
    \/ CheckDimensions
    \/ DetectAlpha
    \/ RunKernel
    \/ Finish

Spec == Init /\ [][Next]_vars

-----------------------------------------------------------------------------
(* One run of compute_mse_rgba_simd, one loop iteration per step.          *)
(* k.ref is the sum computeMSERGBA accumulates over the bytes [0, k.i).    *)
(* k.seen, k.once and k.vec record the byte indices the iterations read:   *)
(* so far exactly [0, k.seen), each once while k.once holds, the first     *)
(* k.vec of them in the vector loop.  k.alt_vec and k.alt_sum are the      *)
(* accumulators of the same run on buffers with other alpha bytes.         *)

\* the buffer with every alpha byte replaced by a
WithAlpha(im, a) ==
    [im EXCEPT !.pat = [j \in DOMAIN im.pat |-> [im.pat[j] EXCEPT ![4] = a]]]

\* the number of bytes one iteration of the vector loop loads from pix + i
LoadWidth(b, im, i) ==
    IF b = "AVX2" THEN Cardinality(DOMAIN mm256_loadu_si256(im, i))
                  ELSE Cardinality(DOMAIN vld1q_u8(im, i))

\* the number of bytes one iteration of the tail loop reads: pix[i..i+3]
TailWidth == Cardinality((0 .. 3))

\* a packed buffer of n pixels
Buffer(pat, n) == [layout |-> "RGBA", w |-> n, h |-> 1, pat |-> pat]

\* the state on entry (psnr_simd.c:12-17): sum = 0, i = 0, sum_vec = 0
KStart(b, pat1, pat2, n, has_alpha) ==
    [pc |-> IF b = "NONE" THEN "tail" ELSE "vector",
     pix1 |-> Buffer(pat1, n), pix2 |-> Buffer(pat2, n), length |-> 4 * n,
     has_alpha |-> has_alpha, i |-> 0, sum_vec |-> simdZero(b), sum |-> Zero64,
     ref |-> Zero64,
     seen |-> 0, once |-> TRUE, vec |-> 0,
     alt_vec |-> simdZero(b), alt_sum |-> Zero64]

InitSimd ==
    /\ build \in Builds
    /\ IdleCall
    /\ acc = KIdle
    /\ det = KIdle
    /\ pl = KIdle
    /\ th = KIdle
    /\ lp = KIdle
    /\ \E p \in KPairs, n \in KPixels, a \in BOOLEAN :
           k = KStart(build, p[1], p[2], n, a)

\* one iteration of the vector loop (psnr_simd.c:19-57, 72-97)
SimdVector ==
    /\ k.pc = "vector"
    /\ k.i + BatchSize(build) <= k.length
    /\ k' = [k EXCEPT
               !.sum_vec = simdBody(build, k.sum_vec, k.pix1, k.pix2, k.i, k.has_alpha),
               !.i = k.i + BatchSize(build),
               !.ref = computeMSERGBALoop(k.ref, k.pix1, k.pix2, k.i,
                                          k.i + BatchSize(build), k.has_alpha),
               !.once = k.once /\ k.i = k.seen,
               !.seen = k.i + LoadWidth(build, k.pix1, k.i),
               !.vec = k.vec + LoadWidth(build, k.pix1, k.i),
               !.alt_vec = simdBody(build, k.alt_vec, WithAlpha(k.pix1, 0),
                                    WithAlpha(k.pix2, 255), k.i, k.has_alpha)]
    /\ UNCHANGED <<callVars, acc, det, pl, th, lp>>

\* the horizontal sum after the vector loop (psnr_simd.c:59-66, 99-101)
SimdHorizontal ==
    /\ k.pc = "vector"
    /\ ~(k.i + BatchSize(build) <= k.length)
    /\ k' = [k EXCEPT !.sum = Add64(k.sum, simdHorizontal(build, k.sum_vec)),
                      !.alt_sum = Add64(k.alt_sum, simdHorizontal(build, k.alt_vec)),
                      !.pc = "tail"]
    /\ UNCHANGED <<callVars, acc, det, pl, th, lp>>

\* one iteration of the tail loop (psnr_simd.c:105-116)
SimdTail ==
    /\ k.pc = "tail"
    /\ k.i < k.length
    /\ k' = [k EXCEPT
               !.sum = simdTailBody(k.sum, k.pix1, k.pix2, k.i, k.has_alpha),
               !.i = k.i + 4,
               !.ref = computeMSERGBALoop(k.ref, k.pix1, k.pix2, k.i, k.i + 4,
                                          k.has_alpha),
               !.once = k.once /\ k.i = k.seen,
               !.seen = k.i + TailWidth,
               !.alt_sum = simdTailBody(k.alt_sum, WithAlpha(k.pix1, 0),
                                        WithAlpha(k.pix2, 255), k.i, k.has_alpha)]
    /\ UNCHANGED <<callVars, acc, det, pl, th, lp>>

\* return sum (psnr_simd.c:118)
SimdReturn ==
    /\ k.pc = "tail"
    /\ ~(k.i < k.length)
    /\ k' = [k EXCEPT !.pc = "done"]
    /\ UNCHANGED <<callVars, acc, det, pl, th, lp>>

NextSimd ==
    \/ SimdVector
    \/ SimdHorizontal
    \/ SimdTail
    \/ SimdReturn

SpecSimd == InitSimd /\ [][NextSimd]_vars

-----------------------------------------------------------------------------
(* Concurrent calls of Compute: each call has its own arguments and its     *)
(* own locals (psnr.go:33-61); the package has no variable.                 *)

Threads == {1, 2}

\* the encoded inputs handed to the concurrent calls
ConcFiles ==
    {Corrupt,
     [format |-> "png", color |-> "TCA8", w |-> SmallW, h |-> 1, pat |-> <<Half, White>>],
     [format |-> "png", color |-> "TC8", w |-> SmallW, h |-> 1, pat |-> <<Tint, Half>>],
     [format |-> "jpeg", color |-> "YCbCr", w |-> SmallW, h |-> 1, pat |-> <<Black>>],
     [format |-> "jpeg", color |-> "YCbCr", w |-> SmallW, h |-> SmallW, pat |-> <<Tint>>]}

\* the locals of Compute on entry
FreshLocals ==
    [pc |-> "decode1", img1 |-> NoImage, img2 |-> NoImage, format1 |-> "",
     format2 |-> "", hasAlpha |-> FALSE, channelCount |-> 0,
     sumSquaredDiff |-> Zero64, ret |-> NoRet]

\* Locals with one frame shared by every call
LocalsShared(t, i) == t[1].locals

\* the locals of call i
Locals(t, i) == t[i].locals

\* one phase of Compute(b1, b2) from the locals l (psnr.go:33-125)
StepCompute(b1, b2, l) ==
    CASE l.pc = "decode1" ->
             IF DecodeFails(b1)
             THEN [l EXCEPT !.ret = Return(NoValue, ErrDecodeFirst), !.pc = "done"]
             ELSE [l EXCEPT !.img1 = Decode(b1), !.format1 = b1.format,
                            !.pc = "decode2"]
      [] l.pc = "decode2" ->
             IF DecodeFails(b2)
             THEN [l EXCEPT !.ret = Return(NoValue, ErrDecodeSecond), !.pc = "done"]
             ELSE [l EXCEPT !.img2 = Decode(b2), !.format2 = b2.format,
                            !.pc = "bounds"]
      [] l.pc = "bounds" ->
             IF DimensionsDiffer(l.img1, l.img2)
             THEN [l EXCEPT !.ret = Return(NoValue,
                                          ErrDimensions(Dx(l.img1), Dy(l.img1),
                                                        Dx(l.img2), Dy(l.img2))),
                            !.pc = "done"]
             ELSE [l EXCEPT !.channelCount = 3, !.pc = "alpha"]
      [] l.pc = "alpha" ->
             LET found == detectAlpha(l.format1, l.format2, l.img1, l.img2,
                                      Dx(l.img1), Dy(l.img1))
             IN  [l EXCEPT !.hasAlpha = found,
                           !.channelCount = IF found THEN 4 ELSE 3,
                           !.pc = "switch"]
      [] l.pc = "switch" ->
             [l EXCEPT !.sumSquaredDiff =
                           RunKernelGo(KernelFor(l.img1, l.img2), l.img1, l.img2,
                                       Dx(l.img1), Dy(l.img1), l.hasAlpha),
                       !.pc = "result"]
      [] l.pc = "result" ->
             LET totalSamples == TotalSamples(Dx(l.img1), Dy(l.img1), l.channelCount)
             IN  [l EXCEPT !.ret =
                               IF l.sumSquaredDiff = Zero64
                               THEN Return(Inf, Nil)
                               ELSE Return(ScoreGo(l.sumSquaredDiff, totalSamples,
                                                   l.format1, l.format2), Nil),
                           !.pc = "done"]

\* what Compute(b1, b2) returns when it runs from entry to return with no
\* other call beside it
RECURSIVE RunAlone(_, _, _)
RunAlone(b1, b2, l) ==
    IF l.pc = "done" THEN l.ret ELSE RunAlone(b1, b2, StepCompute(b1, b2, l))

InitConc ==
    /\ build \in Builds
    /\ IdleCall
    /\ k = KIdle
    /\ acc = KIdle
    /\ det = KIdle
    /\ pl = KIdle
    /\ lp = KIdle
    /\ th \in [Threads -> {[image1Bytes |-> b1, image2Bytes |-> b2,
                            locals |-> FreshLocals] : b1 \in ConcFiles, b2 \in ConcFiles}]

\* call i takes its next step
ThreadStep(i) ==
    /\ Locals(th, i).pc # "done"
    /\ th' = [th EXCEPT ![i].locals =
                 StepCompute(th[i].image1Bytes, th[i].image2Bytes, Locals(th, i))]
    /\ UNCHANGED <<callVars, k, acc, det, pl, lp>>

NextConc == \E i \in Threads : ThreadStep(i)

SpecConc == InitConc /\ [][NextConc]_vars

-----------------------------------------------------------------------------
(* The accumulator of a scalar kernel over uniform images of growing size.  *)
(* Every pixel of the first image is pat1 and every pixel of the second is  *)
(* pat2, so a kernel adds the same squared differences for every pixel and  *)
(* its loop over an image of twice the pixels adds the same sum once more.  *)
(* acc.exact is the sum without wrap-around, on 96 bits.                    *)

\* log2 of the largest width and height
MaxLog == 30

\* a 1 x 1 image for the kernel kn
OnePixel(kn, px) ==
    [layout |-> IF kn = "Generic" THEN "Paletted" ELSE kn, w |-> 1, h |-> 1,
     pat |-> <<px>>]

\* a 64-bit value on six limbs
Widen(a) == <<a[1], a[2], a[3], a[4], 0, 0>>

\* a + b on six limbs
AddWide(a, b) ==
    LET s1 == a[1] + b[1]
        s2 == a[2] + b[2] + (s1 \div W16)
        s3 == a[3] + b[3] + (s2 \div W16)
        s4 == a[4] + b[4] + (s3 \div W16)
        s5 == a[5] + b[5] + (s4 \div W16)
        s6 == a[6] + b[6] + (s5 \div W16)
    IN  <<s1 % W16, s2 % W16, s3 % W16, s4 % W16, s5 % W16, s6 % W16>>

\* the kernel kn has run over one pixel
AccStart(kn, pat1, pat2, alpha) ==
    LET sum == RunKernelGo(kn, OnePixel(kn, pat1[1]), OnePixel(kn, pat2[1]), 1, 1, alpha)
    IN  [pc |-> "run", kernel |-> kn, pat1 |-> pat1, pat2 |-> pat2, alpha |-> alpha,
         logW |-> 0, logH |-> 0, sum |-> sum, exact |-> Widen(sum)]

InitAcc ==
    /\ build \in Builds
    /\ IdleCall
    /\ k = KIdle
    /\ det = KIdle
    /\ pl = KIdle
    /\ th = KIdle
    /\ lp = KIdle
    /\ \E kn \in {"Generic", "RGBA", "NRGBA", "YCbCr"}, p \in KPairs, a \in BOOLEAN :
           acc = AccStart(kn, p[1], p[2], a)

\* the sum a kernel's loop leaves once the image has twice the pixels:
\* sumSquaredDiff += ... over the second half adds what the first half added
AccDouble(sum) == Add64(sum, sum)

\* the same kernel over an image twice as wide
GrowWidth ==
    /\ acc.pc = "run"
    /\ acc.logW < MaxLog
    /\ acc' = [acc EXCEPT !.logW = acc.logW + 1,
                          !.sum = AccDouble(acc.sum),
                          !.exact = AddWide(acc.exact, acc.exact)]
    /\ UNCHANGED <<callVars, k, det, pl, th, lp>>

\* the same kernel over an image twice as high
GrowHeight ==
    /\ acc.pc = "run"
    /\ acc.logH < MaxLog
    /\ acc' = [acc EXCEPT !.logH = acc.logH + 1,
                          !.sum = AccDouble(acc.sum),
                          !.exact = AddWide(acc.exact, acc.exact)]
    /\ UNCHANGED <<callVars, k, det, pl, th, lp>>

NextAcc ==
    \/ GrowWidth
    \/ GrowHeight

SpecAcc == InitAcc /\ [][NextAcc]_vars

-----------------------------------------------------------------------------
(* One run of the alpha detector (psnr.go:61-78) on two decoded images of   *)
(* equal size, small and large.                                             *)

\* the side from which the detector samples every 16th pixel (psnr.go:65)
StrideLimit == 64

DetDims ==
    {<<StrideLimit, StrideLimit>>, <<StrideLimit - 1, StrideLimit>>,
     <<StrideLimit, StrideLimit - 1>>, <<StrideLimit + 16, StrideLimit>>,
     <<WideW, 1>>}

\* where the one pixel with alpha 128 lies; <<-1, -1>>: nowhere
DetSpots ==
    {<<-1, -1>>, <<0, 0>>, <<4, 0>>, <<16, 0>>, <<0, 4>>, <<0, 16>>, <<5, 3>>,
     <<48, 48>>}

\* a decoded PNG with alpha, opaque except at the spot
SpotImage(w, h, spot) ==
    [layout |-> "NRGBA", w |-> w, h |-> h,
     pat |-> [n \in 1..(w * h) |->
                 IF n - 1 = spot[2] * w + spot[1] /\ spot[1] \in 0..(w - 1)
                 THEN Half ELSE Tint]]

\* a decoded JPEG
PlanarImage(w, h) == [layout |-> "YCbCr", w |-> w, h |-> h, pat |-> <<Tint>>]

\* the format name image.Decode returns with the image
FormatOf(im) == IF im.layout \in {"YCbCr", "Gray"} THEN "jpeg" ELSE "png"

DetImages(w, h) == {PlanarImage(w, h)} \cup {SpotImage(w, h, s) : s \in DetSpots}

\* the locals before the detector runs: hasAlpha := false, channelCount := 3
DetStart(im1, im2) ==
    [pc |-> "ready", im1 |-> im1, im2 |-> im2, format1 |-> FormatOf(im1),
     format2 |-> FormatOf(im2), hasAlpha |-> FALSE, channelCount |-> 3,
     seen |-> <<>>]

InitAlpha ==
    /\ build \in Builds
    /\ IdleCall
    /\ k = KIdle
    /\ acc = KIdle
    /\ pl = KIdle
    /\ th = KIdle
    /\ lp = KIdle
    /\ \E d \in DetDims :
           \E im1 \in DetImages(d[1], d[2]), im2 \in DetImages(d[1], d[2]) :
               det = DetStart(im1, im2)

\* the detector (psnr.go:61-78)
DetRun ==
    /\ det.pc = "ready"
    /\ LET scan == detectAlphaScan(det.format1, det.format2, det.im1, det.im2,
                                   Dx(det.im1), Dy(det.im1))
       IN  det' = [det EXCEPT !.hasAlpha = scan.found,
                              !.channelCount = IF scan.found THEN 4 ELSE 3,
                              !.seen = scan.seen,
                              !.pc = "done"]
    /\ UNCHANGED <<callVars, k, acc, pl, th, lp>>

NextAlpha == DetRun

SpecAlpha == InitAlpha /\ [][NextAlpha]_vars

-----------------------------------------------------------------------------
(* The kernels for two planar images.  compute_mse_ycbcr_simd               *)
(* (psnr_simd.c:122-208), which no Go function calls, runs on the planes    *)
(* of the two images one loop iteration per step.  Beside its Cb loop,      *)
(* pl.go and pl.cgo are the sums computeMSEYCbCr (psnr.go) and              *)
(* computeMSE_YCbCr_CGo (psnr_cgo.go) accumulate over the pixels [0, pl.i), *)
(* and pl.conv is the sum of the squared differences of the converted       *)
(* (R, G, B) triples of those pixels.                                       *)

\* img.Y[i] (c = 1), img.Cb[i] (c = 2) or img.Cr[i] (c = 3) of a planar image
\* without subsampling: one byte per pixel, in scan order
PlaneAt(im, c, i) == im.pat[(i % Len(im.pat)) + 1][c]

\* len(img.Y) = len(img.Cb) = len(img.Cr)
PlaneLen(im) == im.w * im.h

\* _mm256_loadu_si256(y + i): 32 bytes of the Y plane
mm256_loadu_plane(im, i) == [j \in 1..32 |-> PlaneAt(im, 1, i + j - 1)]

\* _mm256_max_epu8(a, b)
mm256_max_epu8(a, b) == [e \in 1..32 |-> IF a[e] >= b[e] THEN a[e] ELSE b[e]]

\* _mm256_min_epu8(a, b)
mm256_min_epu8(a, b) == [e \in 1..32 |-> IF a[e] <= b[e] THEN a[e] ELSE b[e]]

\* _mm256_sub_epi8(a, b): wraps at 8 bits
mm256_sub_epi8(a, b) == [e \in 1..32 |-> (a[e] - b[e]) % 256]

\* body of the AVX2 loop over the Y planes at byte index i (psnr_simd.c:132-151)
avx2PlaneBody(sum_vec, im1, im2, i) ==
    LET p1      == mm256_loadu_plane(im1, i)
        p2      == mm256_loadu_plane(im2, i)
        diff    == mm256_sub_epi8(mm256_max_epu8(p1, p2), mm256_min_epu8(p1, p2))
        diff_lo == mm256_unpacklo_epi8(diff)
        diff_hi == mm256_unpackhi_epi8(diff)
        sq_lo   == mm256_mullo_epi16(diff_lo, diff_lo)
        sq_hi   == mm256_mullo_epi16(diff_hi, diff_hi)
        v1      == mm256_add_epi32(sum_vec, mm256_unpacklo_epi16(sq_lo))
        v2      == mm256_add_epi32(v1, mm256_unpackhi_epi16(sq_lo))
        v3      == mm256_add_epi32(v2, mm256_unpacklo_epi16(sq_hi))
    IN  mm256_add_epi32(v3, mm256_unpackhi_epi16(sq_hi))

\* vld1q_u8(y + i): 16 bytes of the Y plane
vld1q_plane(im, i) == [j \in 1..16 |-> PlaneAt(im, 1, i + j - 1)]

\* body of the NEON loop over the Y planes at byte index i (psnr_simd.c:167-182)
neonPlaneBody(sum_vec, im1, im2, i) ==
    LET p1      == vld1q_plane(im1, i)
        p2      == vld1q_plane(im2, i)
        diff_lo == vsubl_u8(vget_low_u8(p1), vget_low_u8(p2))
        diff_hi == vsubl_u8(vget_high_u8(p1), vget_high_u8(p2))
        sq_lo   == vmulq_s16(diff_lo, diff_lo)
        sq_hi   == vmulq_s16(diff_hi, diff_hi)
        v1      == vaddq_u32(sum_vec, vaddl_u16_halves(sq_lo))
    IN  vaddq_u32(v1, vaddl_u16_halves(sq_hi))

\* body of a scalar loop over plane c at byte index i (psnr_simd.c:191-205):
\* diff = p1[i] - p2[i]; sum += (uint64_t)(diff * diff)
PlaneScalarBody(sum, im1, im2, c, i) ==
    Add64(sum, U64(Sq(PlaneAt(im1, c, i), PlaneAt(im2, c, i))))

\* the sizes of the planar images: shorter than a batch, and longer
PlanarDims == {<<SmallW, 1>>, <<SmallW, SmallW>>, <<WideW, 4>>}

\* the state on entry (psnr_simd.c:125-130): sum = 0, i = 0, sum_vec = 0
PlanarStart(b, im1, im2) ==
    [pc |-> IF b = "NONE" THEN "y" ELSE "vector", im1 |-> im1, im2 |-> im2,
     i |-> 0, sum_vec |-> simdZero(b), sum |-> Zero64,
     go |-> Zero64, cgo |-> Zero64, conv |-> Zero64]

InitPlanar ==
    /\ build \in Builds
    /\ IdleCall
    /\ k = KIdle
    /\ acc = KIdle
    /\ det = KIdle
    /\ th = KIdle
    /\ lp = KIdle
    /\ \E d \in PlanarDims, p1 \in Pats, p2 \in Pats :
           pl = PlanarStart(build,
                            [layout |-> "YCbCr", w |-> d[1], h |-> d[2], pat |-> p1],
                            [layout |-> "YCbCr", w |-> d[1], h |-> d[2], pat |-> p2])

\* one iteration of the vector loop over the Y planes
\* (psnr_simd.c:132-151, 167-182)
PlaneVector ==
    /\ pl.pc = "vector"
    /\ pl.i + BatchSize(build) <= PlaneLen(pl.im1)
    /\ pl' = [pl EXCEPT
                !.sum_vec = IF build = "AVX2"
                            THEN avx2PlaneBody(pl.sum_vec, pl.im1, pl.im2, pl.i)
                            ELSE neonPlaneBody(pl.sum_vec, pl.im1, pl.im2, pl.i),
                !.i = pl.i + BatchSize(build)]
    /\ UNCHANGED <<callVars, k, acc, det, th, lp>>

\* the horizontal sum after the vector loop (psnr_simd.c:153-160, 184-186)
PlaneHorizontal ==
    /\ pl.pc = "vector"
    /\ ~(pl.i + BatchSize(build) <= PlaneLen(pl.im1))
    /\ pl' = [pl EXCEPT !.sum = Add64(pl.sum, simdHorizontal(build, pl.sum_vec)),
                        !.pc = "y"]
    /\ UNCHANGED <<callVars, k, acc, det, th, lp>>

\* one iteration of the loop over the remaining Y bytes (psnr_simd.c:190-193)
PlaneY ==
    /\ pl.pc = "y"
    /\ pl.i < PlaneLen(pl.im1)
    /\ pl' = [pl EXCEPT !.sum = PlaneScalarBody(pl.sum, pl.im1, pl.im2, 1, pl.i),
                        !.i = pl.i + 1]
    /\ UNCHANGED <<callVars, k, acc, det, th, lp>>

\* the Y loop ends; for (i = 0; i < cb_len; i++) begins (psnr_simd.c:196)
PlaneYDone ==
    /\ pl.pc = "y"
    /\ ~(pl.i < PlaneLen(pl.im1))
    /\ pl' = [pl EXCEPT !.pc = "cb", !.i = 0]
    /\ UNCHANGED <<callVars, k, acc, det, th, lp>>

\* one iteration of the loop over the Cb bytes (psnr_simd.c:196-199); the Go
\* kernels take pixel i beside it
PlaneCb ==
    /\ pl.pc = "cb"
    /\ pl.i < PlaneLen(pl.im1)
    /\ LET x  == pl.i % Dx(pl.im1)
           y  == pl.i \div Dx(pl.im1)
           s1 == YCbCrAt(pl.im1, x, y)
           s2 == YCbCrAt(pl.im2, x, y)
           c1 == YCbCrToRGB(s1[1], s1[2], s1[3])
           c2 == YCbCrToRGB(s2[1], s2[2], s2[3])
       IN  pl' = [pl EXCEPT
                    !.sum = PlaneScalarBody(pl.sum, pl.im1, pl.im2, 2, pl.i),
                    !.i = pl.i + 1,
                    !.go = computeMSEYCbCrBody(pl.go, pl.im1, pl.im2, x, y),
                    !.cgo = computeMSE_YCbCr_CGoBody(pl.cgo, pl.im1, pl.im2, x, y),
                    !.conv = Add64(pl.conv, U64(Sq(c1[1], c2[1]) + Sq(c1[2], c2[2])
                                                + Sq(c1[3], c2[3])))]
    /\ UNCHANGED <<callVars, k, acc, det, th, lp>>

\* the Cb loop ends; for (i = 0; i < cr_len; i++) begins (psnr_simd.c:201)
PlaneCbDone ==
    /\ pl.pc = "cb"
    /\ ~(pl.i < PlaneLen(pl.im1))
    /\ pl' = [pl EXCEPT !.pc = "cr", !.i = 0]
    /\ UNCHANGED <<callVars, k, acc, det, th, lp>>

\* one iteration of the loop over the Cr bytes (psnr_simd.c:201-204)
PlaneCr ==
    /\ pl.pc = "cr"
    /\ pl.i < PlaneLen(pl.im1)
    /\ pl' = [pl EXCEPT !.sum = PlaneScalarBody(pl.sum, pl.im1, pl.im2, 3, pl.i),
                        !.i = pl.i + 1]
    /\ UNCHANGED <<callVars, k, acc, det, th, lp>>

\* return sum (psnr_simd.c:207)
PlaneReturn ==
    /\ pl.pc = "cr"
    /\ ~(pl.i < PlaneLen(pl.im1))
    /\ pl' = [pl EXCEPT !.pc = "done"]
    /\ UNCHANGED <<callVars, k, acc, det, th, lp>>

NextPlanar ==
    \/ PlaneVector
    \/ PlaneHorizontal
    \/ PlaneY
    \/ PlaneYDone
    \/ PlaneCb
    \/ PlaneCbDone
    \/ PlaneCr
    \/ PlaneReturn

SpecPlanar == InitPlanar /\ [][NextPlanar]_vars

-----------------------------------------------------------------------------
(* One call of Compute after both inputs are decoded, one loop iteration   *)
(* per step.  lp.samples and lp.kernels count the iterations of the        *)
(* alpha-sampling loops and the kernel loops entered.                      *)

\* the locals of Compute after the two calls of image.Decode (psnr.go:34-42)
LoopsStart(b1, b2) ==
    [pc |-> "bounds", img1 |-> Decode(b1), img2 |-> Decode(b2),
     format1 |-> b1.format, format2 |-> b2.format,
     width |-> 0, height |-> 0, hasAlpha |-> FALSE, channelCount |-> 0,
     step |-> 0, x |-> 0, y |-> 0, i |-> 0, kernel |-> "none",
     sum |-> Zero64, ret |-> NoRet, samples |-> 0, kernels |-> 0]

\* psnr.go has no build-dependent code: one build stands for all
InitLoops ==
    /\ build = "NONE"
    /\ IdleCall
    /\ k = KIdle
    /\ acc = KIdle
    /\ det = KIdle
    /\ pl = KIdle
    /\ th = KIdle
    /\ \E b1 \in Files, b2 \in Files :
           /\ ~DecodeFails(b1)
           /\ ~DecodeFails(b2)
           /\ lp = LoopsStart(b1, b2)

\* the dimension check and the declarations after it (psnr.go:44-61)
LoopsBounds ==
    /\ lp.pc = "bounds"
    /\ lp' = IF DimensionsDiffer(lp.img1, lp.img2)
             THEN [lp EXCEPT !.ret = Return(NoValue,
                                            ErrDimensions(Dx(lp.img1), Dy(lp.img1),
                                                          Dx(lp.img2), Dy(lp.img2))),
                             !.pc = "done"]
             ELSE [lp EXCEPT !.width = Dx(lp.img1), !.height = Dy(lp.img1),
                             !.sum = Zero64, !.channelCount = 3,
                             !.hasAlpha = FALSE, !.pc = "format"]
    /\ UNCHANGED <<callVars, k, acc, det, pl, th>>

\* if format1 == "png" || format2 == "png": step, and y := 0 (psnr.go:62-68)
LoopsFormat ==
    /\ lp.pc = "format"
    /\ lp' = IF lp.format1 = "png" \/ lp.format2 = "png"
             THEN [lp EXCEPT !.step = AlphaStep(lp.width, lp.height),
                             !.y = 0, !.pc = "alphaY"]
             ELSE [lp EXCEPT !.pc = "switch"]
    /\ UNCHANGED <<callVars, k, acc, det, pl, th>>

\* y < height && !hasAlpha holds: x := 0 (psnr.go:68-69)
AlphaRow ==
    /\ lp.pc = "alphaY"
    /\ lp.y < lp.height /\ ~lp.hasAlpha
    /\ lp' = [lp EXCEPT !.x = 0, !.pc = "alphaX"]
    /\ UNCHANGED <<callVars, k, acc, det, pl, th>>

\* y < height && !hasAlpha fails: the outer loop ends (psnr.go:68, 78)
AlphaDone ==
    /\ lp.pc = "alphaY"
    /\ ~(lp.y < lp.height /\ ~lp.hasAlpha)
    /\ lp' = [lp EXCEPT !.pc = "switch"]
    /\ UNCHANGED <<callVars, k, acc, det, pl, th>>

\* AlphaSample without x += step
AlphaSampleStay ==
    /\ lp.pc = "alphaX"
    /\ lp.x < lp.width /\ ~lp.hasAlpha
    /\ LET found == NotOpaque(AtRGBA(lp.img1, lp.x, lp.y)[4],
                              AtRGBA(lp.img2, lp.x, lp.y)[4])
       IN  lp' = [lp EXCEPT !.hasAlpha = found,
                            !.channelCount = IF found THEN 4 ELSE lp.channelCount]
    /\ UNCHANGED <<callVars, k, acc, det, pl, th>>

\* x < width && !hasAlpha holds: the body, then x += step (psnr.go:69-76)
AlphaSample ==
    /\ lp.pc = "alphaX"
    /\ lp.x < lp.width /\ ~lp.hasAlpha
    /\ LET found == NotOpaque(AtRGBA(lp.img1, lp.x, lp.y)[4],
                              AtRGBA(lp.img2, lp.x, lp.y)[4])
       IN  lp' = [lp EXCEPT !.hasAlpha = found,
                            !.channelCount = IF found THEN 4 ELSE lp.channelCount,
                            !.x = lp.x + lp.step,
                            !.samples = lp.samples + 1]
    /\ UNCHANGED <<callVars, k, acc, det, pl, th>>

\* x < width && !hasAlpha fails: the inner loop ends, y += step (psnr.go:68-69)
AlphaRowEnd ==
    /\ lp.pc = "alphaX"
    /\ ~(lp.x < lp.width /\ ~lp.hasAlpha)
    /\ lp' = [lp EXCEPT !.y = lp.y + lp.step, !.pc = "alphaY"]
    /\ UNCHANGED <<callVars, k, acc, det, pl, th>>

\* the type switch enters one kernel: its sum and index start at 0
\* (psnr.go:81-105, 129, 160-165, 183-188, 206-209)
LoopsSwitch ==
    /\ lp.pc = "switch"
    /\ LET kn == KernelFor(lp.img1, lp.img2)
       IN  lp' = [lp EXCEPT !.kernel = kn, !.sum = Zero64, !.i = 0, !.y = 0,
                            !.kernels = lp.kernels + 1,
                            !.pc = IF kn \in {"RGBA", "NRGBA"} THEN "packed"
                                                              ELSE "kernelY"]
    /\ UNCHANGED <<callVars, k, acc, det, pl, th>>

\* i < len(pix1) holds: the body, then i += 4 (psnr.go:165-176, 188-199)
PackedPixel ==
    /\ lp.pc = "packed"
    /\ lp.i < PixLen(lp.img1)
    /\ lp' = [lp EXCEPT
                !.sum = IF lp.kernel = "RGBA"
                        THEN computeMSERGBABody(lp.sum, lp.img1, lp.img2, lp.i,
                                                lp.hasAlpha)
                        ELSE computeMSENRGBABody(lp.sum, lp.img1, lp.img2, lp.i,
                                                 lp.hasAlpha),
                !.i = lp.i + 4]
    /\ UNCHANGED <<callVars, k, acc, det, pl, th>>

\* i < len(pix1) fails: return sumSquaredDiff (psnr.go:179, 201)
PackedReturn ==
    /\ lp.pc = "packed"
    /\ ~(lp.i < PixLen(lp.img1))
    /\ lp' = [lp EXCEPT !.pc = "result"]
    /\ UNCHANGED <<callVars, k, acc, det, pl, th>>

\* y < height holds: x := 0 (psnr.go:131-132, 209-210)
KernelRow ==
    /\ lp.pc = "kernelY"
    /\ lp.y < lp.height
    /\ lp' = [lp EXCEPT !.x = 0, !.pc = "kernelX"]
    /\ UNCHANGED <<callVars, k, acc, det, pl, th>>

\* y < height fails: return sumSquaredDiff (psnr.go:155, 223)
KernelReturn ==
    /\ lp.pc = "kernelY"
    /\ ~(lp.y < lp.height)
    /\ lp' = [lp EXCEPT !.pc = "result"]
    /\ UNCHANGED <<callVars, k, acc, det, pl, th>>

\* x < width holds: the body, then x++ (psnr.go:132-152, 210-220)
KernelPixel ==
    /\ lp.pc = "kernelX"
    /\ lp.x < lp.width
    /\ lp' = [lp EXCEPT
                !.sum = IF lp.kernel = "YCbCr"
                        THEN computeMSEYCbCrBody(lp.sum, lp.img1, lp.img2, lp.x, lp.y)
                        ELSE computeMSEGenericBody(lp.sum, lp.img1, lp.img2, lp.x,
                                                   lp.y, lp.hasAlpha),
                !.x = lp.x + 1]
    /\ UNCHANGED <<callVars, k, acc, det, pl, th>>

\* x < width fails: the inner loop ends, y++ (psnr.go:131-132, 209-210)
KernelRowEnd ==
    /\ lp.pc = "kernelX"
    /\ ~(lp.x < lp.width)
    /\ lp' = [lp EXCEPT !.y = lp.y + 1, !.pc = "kernelY"]
    /\ UNCHANGED <<callVars, k, acc, det, pl, th>>

\* totalSamples, the zero test and the score (psnr.go:107-124)
LoopsResult ==
    /\ lp.pc = "result"
    /\ LET totalSamples == TotalSamples(lp.width, lp.height, lp.channelCount)
       IN  lp' = [lp EXCEPT
                    !.ret = IF lp.sum = Zero64
                            THEN Return(Inf, Nil)
                            ELSE Return(ScoreGo(lp.sum, totalSamples,
                                                lp.format1, lp.format2), Nil),
                    !.pc = "done"]
    /\ UNCHANGED <<callVars, k, acc, det, pl, th>>

NextLoops ==
    \/ LoopsBounds
    \/ LoopsFormat
    \/ AlphaRow
    \/ AlphaDone
    \/ AlphaSample
    \/ AlphaRowEnd
    \/ LoopsSwitch
    \/ PackedPixel
    \/ PackedReturn
    \/ KernelRow
    \/ KernelReturn
    \/ KernelPixel
    \/ KernelRowEnd
    \/ LoopsResult

\* the goroutine that runs the call keeps running: Compute takes no lock,
\* waits on no channel and starts no goroutine
SpecLoops == InitLoops /\ [][NextLoops]_vars /\ WF_vars(NextLoops)

-----------------------------------------------------------------------------
(* Properties *)

Decodable(bytes) == ~DecodeFails(bytes)

Succeeded == pc = "done" /\ ret.err = Nil

\* every stored alpha of the image is 255
Opaque(im) == \A n \in 1..Len(im.pat) : im.pat[n][4] = 255

\* the squared differences the kernel kn of Compute adds for pixel number n
PixelTerm(kn, sum, im1, im2, n, alpha) ==
    CASE kn = "RGBA"    -> computeMSERGBABody(sum, im1, im2, 4 * n, alpha)
      [] kn = "NRGBA"   -> computeMSENRGBABody(sum, im1, im2, 4 * n, alpha)
      [] kn = "YCbCr"   -> computeMSEYCbCrBody(sum, im1, im2, n % Dx(im1), n \div Dx(im1))
      [] kn = "Generic" -> computeMSEGenericBody(sum, im1, im2, n % Dx(im1),
                                                 n \div Dx(im1), alpha)

\* the sum of PixelTerm over the pixels n-1, n-2, ..., 0
RECURSIVE SumOfPixels(_, _, _, _, _)
SumOfPixels(kn, im1, im2, n, alpha) ==
    IF n = 0 THEN Zero64
    ELSE PixelTerm(kn, SumOfPixels(kn, im1, im2, n - 1, alpha), im1, im2, n - 1, alpha)

\* the sum of the squared R, G and B differences of the stored samples of
\* the pixels n-1, ..., 0: a comparison without any alpha channel
RECURSIVE SumOfRGB(_, _, _)
SumOfRGB(im1, im2, n) ==
    IF n = 0 THEN Zero64
    ELSE LET s1 == im1.pat[((n - 1) % Len(im1.pat)) + 1]
             s2 == im2.pat[((n - 1) % Len(im2.pat)) + 1]
         IN  Add64(SumOfRGB(im1, im2, n - 1),
                   U64(Sq(s1[1], s2[1]) + Sq(s1[2], s2[2]) + Sq(s1[3], s2[3])))

\* C1: comparing a decodable image with itself returns nil and +Inf, through
\* Compute and through computePSNRCgo, whatever kernel is selected and
\* whatever the formats.
C1_IdenticalIsInf ==
    (pc = "done" /\ image1Bytes = image2Bytes /\ Decodable(image1Bytes))
        => (ret.err = Nil /\ ret.value = Inf)

C1_Witness ==
    /\ pc = "done"
    /\ image1Bytes = image2Bytes
    /\ entry = "computePSNRCgo"
    /\ build = "AVX2"
    /\ kernel = "NRGBA"
    /\ hasAlpha
    /\ image1Bytes.w = WideW
    /\ ret.value = Inf

\* C2: when both inputs decode and the widths or the heights differ, the
\* call returns the dimension error naming both width x height pairs and no
\* score; when both are equal it returns no dimension error.
C2_DimensionMismatch ==
    (pc = "done" /\ Decodable(image1Bytes) /\ Decodable(image2Bytes))
        => IF image1Bytes.w # image2Bytes.w \/ image1Bytes.h # image2Bytes.h
           THEN /\ ret.err = ErrDimensions(image1Bytes.w, image1Bytes.h,
                                           image2Bytes.w, image2Bytes.h)
                /\ ret.value = NoValue
                /\ kernel = "none"
           ELSE ret.err.kind # "different dimensions"

C2_Witness ==
    /\ pc = "done"
    /\ entry = "Compute"
    /\ image1Bytes.w = image2Bytes.w
    /\ image1Bytes.h # image2Bytes.h
    /\ ret.err.kind = "different dimensions"
    /\ ret.err.h1 # ret.err.h2

\* the call just finished repeats the previous one with the arguments
\* exchanged
SwappedPair ==
    /\ pc = "done"
    /\ prev.entry = entry
    /\ prev.image1Bytes = image2Bytes
    /\ prev.image2Bytes = image1Bytes

\* C3: Compute(A, B) and Compute(B, A) both fail or return the same value,
\* with the same alpha decision, kernel, sum, sample count and multiplier.
C3_Symmetric ==
    (SwappedPair /\ entry = "Compute")
        => /\ (ret.err = Nil) <=> (prev.ret.err = Nil)
           /\ ret.value = prev.ret.value
           /\ hasAlpha = prev.hasAlpha
           /\ channelCount = prev.channelCount
           /\ kernel = prev.kernel
           /\ sumSquaredDiff = prev.sumSquaredDiff

C3_Witness ==
    /\ SwappedPair
    /\ entry = "Compute"
    /\ image1Bytes # image2Bytes
    /\ Opaque(img1)
    /\ ~Opaque(img2)
    /\ hasAlpha
    /\ ret.value.kind = "finite"

\* C4 (as claimed): in Compute and in computePSNRCgo the mean squared error
\* is multiplied by 0.9005 when at least one input is JPEG, and by nothing
\* when both are PNG.
C4_CorrectionEverywhere ==
    (Succeeded /\ ret.value.kind = "finite")
        => IF format1 = "jpeg" \/ format2 = "jpeg"
           THEN ret.value.mulNum = 9005 /\ ret.value.mulDen = 10000
           ELSE ret.value.mulNum = 1 /\ ret.value.mulDen = 1

\* C5 (as claimed): compute_mse_rgba_simd returns the sum computeMSERGBA
\* returns on the same bytes, for both values of has_alpha and in every
\* branch, also when the 32-bit totals reach 2^31.
C5_SimdEqualsScalar == k.pc = "done" => k.sum = k.ref

\* C6 (as claimed): on a pair sharing a packed layout the generic kernel
\* returns the sum the packed kernel returns, also for non-premultiplied
\* pixels whose alpha is below 255.
C6_GenericEqualsPacked ==
    (pc = "result" /\ entry = "Compute" /\ kernel \in {"RGBA", "NRGBA"})
        => sumSquaredDiff = computeMSEGeneric(img1, img2, Dx(img1), Dy(img1), hasAlpha)

\* the call just finished repeats the previous one through the other entry
\* point
OtherEntryPair ==
    /\ pc = "done"
    /\ prev.entry \in Entries \ {entry}
    /\ prev.image1Bytes = image1Bytes
    /\ prev.image2Bytes = image2Bytes

\* C7 (as claimed): computePSNRCgo and Compute have the same outcome on the
\* same inputs: both fail or both succeed, and the values agree, with the
\* same sum, sample count and multiplier.
C7_CgoEqualsGo ==
    OtherEntryPair
        => /\ (ret.err = Nil) <=> (prev.ret.err = Nil)
           /\ ret.value = prev.ret.value
           /\ sumSquaredDiff = prev.sumSquaredDiff
           /\ channelCount = prev.channelCount

\* C8: a successful Compute returns +Inf exactly when the sum is zero, and
\* otherwise 10*log10(65025/mse) with mse = sum / (width * height *
\* channelCount), channelCount 4 with alpha and 3 without; a pair differing
\* in a contributing sample gets a finite score.
C8_ScoreFormula ==
    (Succeeded /\ entry = "Compute")
        => /\ (ret.value = Inf) <=> (sumSquaredDiff = Zero64)
           /\ channelCount = IF hasAlpha THEN 4 ELSE 3
           /\ sumSquaredDiff # Zero64
                 => ret.value = PSNR(sumSquaredDiff,
                                     Dx(img1) * Dy(img1) * channelCount, 1, 1)
           /\ (\E n \in 0..(Dx(img1) * Dy(img1) - 1) :
                  PixelTerm(kernel, Zero64, img1, img2, n, hasAlpha) # Zero64)
                 => ret.value.kind = "finite"

C8_Witness ==
    /\ Succeeded
    /\ entry = "Compute"
    /\ hasAlpha
    /\ format2 = "jpeg"
    /\ ret.value.kind = "finite"
    /\ ret.value.samples = 4 * WideW

\* C9: for two PNG inputs of equal dimensions whose pixels are all opaque,
\* channelCount is 3 and the sum and the sample count are those of the
\* comparison of the R, G, B data alone.
C9_OpaqueAsRGB ==
    (pc \in {"result", "done"} /\ ret.err = Nil /\ format1 = "png" /\ format2 = "png"
       /\ Opaque(img1) /\ Opaque(img2))
        => /\ ~hasAlpha
           /\ channelCount = 3
           /\ sumSquaredDiff = SumOfRGB(img1, img2, Dx(img1) * Dy(img1))
           /\ ret.value.kind = "finite"
                 => ret.value.samples = 3 * Dx(img1) * Dy(img1)

C9_Witness ==
    /\ Succeeded
    /\ entry = "Compute"
    /\ kernel = "NRGBA"
    /\ Opaque(img1)
    /\ Opaque(img2)
    /\ ret.value.kind = "finite"
    /\ ret.value.samples = 3 * WideW

\* C10: a call ends with an error and the value 0, or with nil and a score
\* computed from every pixel; a decode failure or a dimension mismatch always
\* ends with an error.
C10_ErrorOrScore ==
    pc = "done"
        => /\ ret.returned
           /\ \/ ret.err # Nil /\ ret.value = NoValue
              \/ /\ ret.err = Nil
                 /\ ret.value.kind \in {"inf", "finite"}
                 /\ kernel # "none"
                 /\ entry = "Compute"
                       => sumSquaredDiff = SumOfPixels(kernel, img1, img2,
                                                       Dx(img1) * Dy(img1), hasAlpha)
           /\ (DecodeFails(image1Bytes) \/ DecodeFails(image2Bytes)
                 \/ image1Bytes.w # image2Bytes.w \/ image1Bytes.h # image2Bytes.h)
                 => ret.err # Nil

C10_Witness ==
    /\ Succeeded
    /\ entry = "Compute"
    /\ kernel = "NRGBA"
    /\ image1Bytes.w = WideW
    /\ image1Bytes # image2Bytes
    /\ ret.value.kind = "finite"


\* C11: in every call of Compute and computePSNRCgo the dimension check is
\* made exactly once and before any pixel is visited: no check and no pixel
\* visit precedes it, every later phase has seen exactly one check, and a call
\* whose check fails has sampled no alpha, run no kernel and visited no pixel
C11_CheckBeforePixels ==
    /\ pc \in {"decode1", "decode2", "bounds"} =>
           log.dimChecks = 0 /\ log.pixelReads = 0
    /\ pc \in {"alpha", "switch", "result"} => log.dimChecks = 1
    /\ log.pixelReads > 0 => log.dimChecks = 1 /\ ~DimensionsDiffer(img1, img2)
    /\ Succeeded => log.dimChecks = 1
    /\ (pc = "done" /\ ret.err.kind = "different dimensions") =>
           /\ log.dimChecks = 1
           /\ log.pixelReads = 0
           /\ log.sampled = <<>>
           /\ log.kernelRuns = 0

\* a call of computePSNRCgo on two PNGs of different sizes has returned
C11_Witness ==
    /\ pc = "done"
    /\ entry = "computePSNRCgo"
    /\ ret.err.kind = "different dimensions"
    /\ format1 = "png"
    /\ format2 = "png"
    /\ log.dimChecks = 1
    /\ log.pixelReads = 0

\* either path of the current ComputeFiles call cannot be read
ReadFails ==
    ~computeFiles.path1.readable \/ ~computeFiles.path2.readable

\* the current call is Compute, made by the client on the contents of the
\* two files of the ComputeFiles call it made just before
ContentsPair ==
    /\ pc = "done"
    /\ entry = "Compute"
    /\ ~computeFiles.called
    /\ prev.computeFiles.called
    /\ image1Bytes = prev.computeFiles.path1.data
    /\ image2Bytes = prev.computeFiles.path2.data

\* C12: when both files can be read, ComputeFiles calls Compute once on their
\* full contents and returns what Compute returns on those contents; when
\* either file cannot be read it returns a non-nil error and Compute is never
\* called
C12_FilesAsCompute ==
    /\ (computeFiles.called /\ ReadFails) => log.computeCalls = 0
    /\ (pc = "done" /\ computeFiles.called /\ ReadFails) =>
           ret.returned /\ ret.err # Nil
    /\ (pc = "done" /\ computeFiles.called /\ ~ReadFails) =>
           /\ log.computeCalls = 1
           /\ image1Bytes = computeFiles.path1.data
           /\ image2Bytes = computeFiles.path2.data
    /\ ContentsPair => ret = prev.ret

\* Compute has returned a finite score on the contents of two files for
\* which ComputeFiles had returned before
C12_Witness ==
    /\ ContentsPair
    /\ ret.value.kind = "finite"
    /\ prev.ret.value.kind = "finite"

\* a call is in progress
InCall == pc \notin {"idle", "done"}

\* C13: a comparison call never modifies its inputs: no step of a call
\* changes the two encoded inputs, the paths and file contents of
\* ComputeFiles, or a decoded image once it is decoded, whichever kernel
\* runs and on the success path as on every error path
C13_InputsUnchanged ==
    [][InCall =>
          /\ (pc \notin {"read1", "read2"} =>
                 image1Bytes' = image1Bytes /\ image2Bytes' = image2Bytes)
          /\ computeFiles'.path1 = computeFiles.path1
          /\ computeFiles'.path2 = computeFiles.path2
          /\ (img1 # NoImage => img1' = img1)
          /\ (img2 # NoImage => img2' = img2)]_vars

\* the vector kernel has run on two NRGBA images with alpha, and after the
\* call the images are still the decodings of the two inputs
C13_Witness ==
    /\ Succeeded
    /\ entry = "computePSNRCgo"
    /\ build = "AVX2"
    /\ kernel = "NRGBA"
    /\ hasAlpha
    /\ sumSquaredDiff # Zero64
    /\ img1 = Decode(image1Bytes)
    /\ img2 = Decode(image2Bytes)

\* C14: concurrent calls of Compute do not affect one another: under every
\* interleaving of their steps each call returns what it returns when it runs
\* alone on its own two inputs
C14_CallsIndependent ==
    \A i \in Threads :
        th[i].locals.pc = "done" =>
            th[i].locals.ret = RunAlone(th[i].image1Bytes, th[i].image2Bytes, FreshLocals)

\* call 1 has returned a finite score while call 2, on other inputs with
\* alpha, is between its alpha detection and its kernel
C14_Witness ==
    /\ th[1].locals.pc = "done"
    /\ th[1].locals.ret.value.kind = "finite"
    /\ th[2].locals.pc = "switch"
    /\ th[2].locals.hasAlpha
    /\ th[2].image1Bytes # th[1].image1Bytes

\* the greatest sum one pixel can add: 4 channels of 255 * 255
MaxTerm == U64(4 * 255 * 255)

\* C15: over images of up to 2^16 x 2^16 pixels the 64-bit sum of every
\* scalar kernel equals the sum without wrap-around, a pixel adding at most
\* 4 * 65025
C15_NoOverflow16 ==
    /\ (acc.logW = 0 /\ acc.logH = 0) =>
           /\ acc.sum[3] = 0 /\ acc.sum[4] = 0
           /\ acc.sum[2] * W16 + acc.sum[1] <= 4 * 255 * 255
    /\ (acc.logW <= 16 /\ acc.logH <= 16) => Widen(acc.sum) = acc.exact

\* the generic kernel over 2^16 x 2^16 pixels that differ by 255 in all four
\* channels: the sum is 260100 * 2^32
C15_Witness ==
    /\ acc.kernel = "Generic"
    /\ acc.alpha
    /\ acc.logW = 16
    /\ acc.logH = 16
    /\ acc.sum = <<0, 0, MaxTerm[1], MaxTerm[2]>>
    /\ Widen(acc.sum) = acc.exact

\* C16 as stated: the 64-bit sum never wraps for an image whose width and
\* height fit a 32-bit integer
C16_NoOverflow32 == Widen(acc.sum) = acc.exact

\* C16, amended: the 64-bit sum never wraps for an image of at most 2^46
\* pixels, for instance of width and height at most 2^23
C16_NoOverflow46 == acc.logW + acc.logH <= 46 => Widen(acc.sum) = acc.exact

\* the packed kernel over 2^23 x 2^23 pixels that differ by 255 in all four
\* channels: the sum is 260100 * 2^46 = 65025 * 2^48, and twice as much
\* does not fit 64 bits
C16_Witness ==
    /\ acc.kernel = "RGBA"
    /\ acc.alpha
    /\ acc.logW = 23
    /\ acc.logH = 23
    /\ acc.sum = <<0, 0, 0, 255 * 255>>
    /\ Widen(acc.sum) = acc.exact

\* the stride the claim gives for a width and a height
GridStride(w, h) == IF w < 64 \/ h < 64 THEN 4 ELSE 16

\* the number of multiples of the stride below n
GridCount(n, stride) == (n + stride - 1) \div stride

\* the i-th grid coordinate of a w x h image, rows first
GridCoord(i, w, h) ==
    LET stride == GridStride(w, h)
        nx == GridCount(w, stride)
    IN  <<((i - 1) % nx) * stride, ((i - 1) \div nx) * stride>>

\* the grid coordinates, by number, where either image stores an alpha
\* other than 255
GridHits(im1, im2) ==
    LET w == im1.w
        h == im1.h
        stride == GridStride(w, h)
    IN  {i \in 1..(GridCount(w, stride) * GridCount(h, stride)) :
            LET c == GridCoord(i, w, h)
            IN  SampleAt(im1, c[1], c[2])[4] # 255 \/ SampleAt(im2, c[1], c[2])[4] # 255}

\* C17: when the detector runs (an input is PNG) it reports alpha iff a grid
\* coordinate (multiples of the stride; stride 4 when a side is below 64,
\* else 16) is not fully opaque in either image; it samples the grid rows
\* first and stops with the first such coordinate; channelCount is 4 exactly
\* when it reports alpha and 3 otherwise
C17_GridSampling ==
    (det.pc = "done" /\ (det.format1 = "png" \/ det.format2 = "png")) =>
        LET w == det.im1.w
            h == det.im1.h
            stride == GridStride(w, h)
            all == GridCount(w, stride) * GridCount(h, stride)
            hits == GridHits(det.im1, det.im2)
            last == IF hits = {} THEN all
                    ELSE CHOOSE i \in hits : \A j \in hits : i <= j
        IN  /\ det.hasAlpha <=> hits # {}
            /\ det.channelCount = IF det.hasAlpha THEN 4 ELSE 3
            /\ det.seen = [i \in 1..last |-> GridCoord(i, w, h)]

\* the detector has sampled all 16 grid points of two 64 x 64 images, the
\* first of which has alpha 128 at (4, 0), off the grid, and has found none
C17_Witness ==
    /\ det.pc = "done"
    /\ det.im1 = SpotImage(StrideLimit, StrideLimit, <<4, 0>>)
    /\ det.im2.layout = "NRGBA"
    /\ ~det.hasAlpha
    /\ det.channelCount = 3
    /\ Len(det.seen) = 16

\* the alpha decision of the current call has been taken
AlphaDecided == pc \in {"switch", "result"} \/ Succeeded

\* C18: the detector samples only when an input is tagged PNG: a call on two
\* JPEG-tagged inputs samples no alpha, has hasAlpha false and channelCount 3;
\* channelCount 4 implies a PNG-tagged input; the planar kernel is selected
\* only for two planar images and never with channelCount 4
C18_AlphaOnlyForPNG ==
    /\ (AlphaDecided /\ format1 = "jpeg" /\ format2 = "jpeg") =>
           log.sampled = <<>> /\ ~hasAlpha /\ channelCount = 3
    /\ log.sampled # <<>> => format1 = "png" \/ format2 = "png"
    /\ channelCount = 4 => format1 = "png" \/ format2 = "png"
    /\ kernel = "YCbCr" =>
           /\ img1.layout = "YCbCr"
           /\ img2.layout = "YCbCr"
           /\ channelCount = 3

\* a call on two different JPEGs has returned a finite score from the
\* planar kernel over 3 channels, with no alpha sample taken
C18_Witness ==
    /\ Succeeded
    /\ format1 = "jpeg"
    /\ format2 = "jpeg"
    /\ kernel = "YCbCr"
    /\ channelCount = 3
    /\ log.sampled = <<>>
    /\ ret.value.kind = "finite"

\* the type switch of the current call has been passed
KernelDone == pc = "result" \/ Succeeded

\* C19: the kernel is a function of the two layouts alone: packed RGBA when
\* both images are *image.RGBA, packed NRGBA when both are *image.NRGBA,
\* planar when both are *image.YCbCr, generic in every other case; a
\* successful call runs exactly one kernel and no call runs more than one
C19_Dispatch ==
    /\ log.kernelRuns <= 1
    /\ KernelDone =>
           /\ log.kernelRuns = 1
           /\ kernel = "RGBA" <=> (img1.layout = "RGBA" /\ img2.layout = "RGBA")
           /\ kernel = "NRGBA" <=> (img1.layout = "NRGBA" /\ img2.layout = "NRGBA")
           /\ kernel = "YCbCr" <=> (img1.layout = "YCbCr" /\ img2.layout = "YCbCr")
           /\ kernel = "Generic" <=> (img1.layout # img2.layout
                                      \/ img1.layout \notin {"RGBA", "NRGBA", "YCbCr"})

\* a call on an *image.RGBA and an *image.NRGBA has returned from the
\* generic kernel, the only kernel it ran
C19_Witness ==
    /\ Succeeded
    /\ img1.layout = "RGBA"
    /\ img2.layout = "NRGBA"
    /\ kernel = "Generic"
    /\ log.kernelRuns = 1

\* C20: every kernel for two planar images (computeMSEYCbCr,
\* computeMSE_YCbCr_CGo, compute_mse_ycbcr_simd) returns the sum, over the
\* pixel coordinates, of the three squared differences of the (R, G, B)
\* triples converted from (Y, Cb, Cr); none differences the planes directly
C20_PlanarConverts ==
    pl.pc = "done" =>
        /\ pl.go = pl.conv
        /\ pl.cgo = pl.conv
        /\ pl.sum = pl.conv


\* the batch size C21 names for each build
NamedBatch(b) == CASE b = "AVX2" -> 32 [] b = "NEON" -> 16 [] b = "NONE" -> 0

\* the largest multiple of the batch size that is at most length
VectorPart(b, length) ==
    IF NamedBatch(b) = 0 THEN 0 ELSE (length \div NamedBatch(b)) * NamedBatch(b)

\* C21: in compute_mse_rgba_simd the iterations read the byte indices of
\* [0, length) in order, none skipped and none twice; the vector loop reads
\* exactly those below the largest multiple of the batch size, the tail loop
\* the rest; and with has_alpha = 0 the accumulators do not depend on the
\* bytes at the indices congruent to 3 modulo 4, in either loop
C21_EveryByteOnce ==
    k.pc # "off" =>
        /\ k.once
        /\ k.seen = k.i
        /\ k.pc = "vector" => k.vec = k.i /\ k.i <= VectorPart(build, k.length)
        /\ k.pc \in {"tail", "done"} => k.vec = VectorPart(build, k.length)
        /\ k.pc = "done" => k.seen = k.length
        /\ ~k.has_alpha => k.sum_vec = k.alt_vec /\ k.sum = k.alt_sum

\* an AVX2 run without alpha over WideW pixels whose alpha bytes differ has
\* returned: one batch went through the vector loop, the rest through the
\* tail loop
C21_Witness ==
    /\ build = "AVX2"
    /\ k.pc = "done"
    /\ ~k.has_alpha
    /\ k.length = 4 * WideW
    /\ k.vec = BatchSize(build)
    /\ k.seen - k.vec > 0
    /\ Pix(k.pix1, 3) # Pix(k.pix2, 3)
    /\ k.sum = k.alt_sum
    /\ k.sum # Zero64


\* the loops of Compute: position, index and bound of the loop lp is in
InLoop == lp.pc \in {"alphaY", "alphaX", "packed", "kernelY", "kernelX"}

\* one step inside a loop: the index of the loop iterated grows, stays below
\* its bound before the step, and no bound changes
LoopsAdvance ==
    /\ (lp.pc = "alphaX" /\ lp'.pc = "alphaX") =>
           lp.x < lp.width /\ lp'.x > lp.x /\ lp'.y = lp.y
    /\ (lp.pc = "alphaX" /\ lp'.pc = "alphaY") => lp'.y > lp.y
    /\ (lp.pc = "alphaY" /\ lp'.pc = "alphaX") => lp.y < lp.height /\ lp'.y = lp.y
    /\ (lp.pc = "packed" /\ lp'.pc = "packed") =>
           lp.i < PixLen(lp.img1) /\ lp'.i > lp.i
    /\ (lp.pc = "kernelX" /\ lp'.pc = "kernelX") =>
           lp.x < lp.width /\ lp'.x > lp.x /\ lp'.y = lp.y
    /\ (lp.pc = "kernelX" /\ lp'.pc = "kernelY") => lp'.y > lp.y
    /\ (lp.pc = "kernelY" /\ lp'.pc = "kernelX") => lp.y < lp.height /\ lp'.y = lp.y
    /\ (InLoop /\ lp'.pc # "off") =>
           /\ lp'.width = lp.width
           /\ lp'.height = lp.height
           /\ lp'.step = lp.step
           /\ lp'.img1 = lp.img1
           /\ lp'.img2 = lp.img2

\* what a returned call has done: a dimension error without any loop, or
\* the sampling loops (for PNG input only), one kernel loop and the value
\* Compute returns for the pair
LoopsReturned ==
    lp.pc = "done" =>
        /\ lp.ret.returned
        /\ IF DimensionsDiffer(lp.img1, lp.img2)
           THEN /\ lp.ret.err.kind = "different dimensions"
                /\ lp.samples = 0
                /\ lp.kernels = 0
           ELSE /\ lp.ret.err = Nil
                /\ lp.ret.value # NoValue
                /\ lp.kernels = 1
                /\ lp.samples > 0 <=> (lp.format1 = "png" \/ lp.format2 = "png")
                /\ lp.hasAlpha = detectAlpha(lp.format1, lp.format2, lp.img1,
                                             lp.img2, lp.width, lp.height)
                /\ lp.sum = RunKernelGo(lp.kernel, lp.img1, lp.img2, lp.width,
                                        lp.height, lp.hasAlpha)

\* C22: every call of Compute whose inputs are decoded returns: it fails the
\* dimension check before any loop, or runs the alpha-sampling loops and
\* exactly one kernel loop, every iteration of which increases the loop's
\* index below a bound that does not change, and then returns a result
C22_Terminates ==
    /\ [][LoopsAdvance]_vars
    /\ [](lp.pc # "off" => (lp.kernels <= 1 /\ LoopsReturned))
    /\ (lp.pc # "off") ~> (lp.pc = "done")

\* a call on two 9 x 1 PNG images has returned a finite score after three
\* alpha samples and the packed kernel loop over all 36 bytes
C22_Witness ==
    /\ lp.pc = "done"
    /\ lp.ret.err = Nil
    /\ lp.ret.value.kind = "finite"
    /\ lp.width = WideW
    /\ lp.samples > 1
    /\ lp.kernel = "NRGBA"
    /\ lp.kernels = 1
    /\ lp.i = PixLen(lp.img1)


\* a * m on four limbs, for 0 <= m < 2^15
Times64(a, m) ==
    LET p1 == a[1] * m
        p2 == a[2] * m + (p1 \div W16)
        p3 == a[3] * m + (p2 \div W16)
        p4 == a[4] * m + (p3 \div W16)
    IN  <<p1 % W16, p2 % W16, p3 % W16, p4 % W16>>

\* a <= b for two 64-bit values
Le64(a, b) ==
    \/ a[4] < b[4]
    \/ a[4] = b[4] /\ a[3] < b[3]
    \/ a[4] = b[4] /\ a[3] = b[3] /\ a[2] < b[2]
    \/ a[4] = b[4] /\ a[3] = b[3] /\ a[2] = b[2] /\ a[1] <= b[1]

\* 65025 x pixels x channels
SumBound(pixels, channels) == Times64(U64(255 * 255 * channels), pixels)

\* C23 (as claimed): the samples the SIMD kernel reads are in 0..255 and the
\* sum it returns is at most 65025 x pixels x channel-count, so that the
\* mean squared error is at most 65025 and the PSNR is not negative
C23_SumBounded ==
    k.pc = "done" =>
        /\ \A i \in 0..3 : Pix(k.pix1, i) \in 0..255 /\ Pix(k.pix2, i) \in 0..255
        /\ Le64(k.sum, SumBound(k.length \div 4, IF k.has_alpha THEN 4 ELSE 3))


\* the call just finished repeats the previous one on inputs that differ
\* from it in stored alpha values only
AlphaPair ==
    /\ pc = "done"
    /\ prev.entry = entry
    /\ prev.image1Bytes \in AlphaVariants(image1Bytes)
    /\ prev.image2Bytes \in AlphaVariants(image2Bytes)

\* C24 (as claimed): two calls on pairs that differ only in alpha values the
\* detector did not flag, so that hasAlpha is false in both, accumulate the
\* same sum, whichever kernel runs
C24_AlphaBlind ==
    (AlphaPair /\ Succeeded /\ prev.ret.err = Nil /\ ~hasAlpha /\ ~prev.hasAlpha)
        => sumSquaredDiff = prev.sumSquaredDiff


\* C25: the first failure ends the call and is the one reported.  In
\* ComputeFiles an unreadable first path is reported after one read, an
\* unreadable second path after two, and nothing is decoded unless both
\* paths were read; in Compute and computePSNRCgo an undecodable first input
\* is reported after one decode, an undecodable second input after two, and
\* the dimension check is made, and a dimension error returned, only after
\* both inputs decoded
C25_Precedence ==
    /\ ret.returned => pc = "done"
    /\ ret.err.kind = "read path1" =>
           /\ computeFiles.tried = <<1>>
           /\ ~computeFiles.path1.readable
           /\ log.decoded = <<>>
    /\ ret.err.kind = "read path2" =>
           /\ computeFiles.tried = <<1, 2>>
           /\ computeFiles.path1.readable
           /\ ~computeFiles.path2.readable
           /\ log.decoded = <<>>
    /\ (pc = "done" /\ computeFiles.called /\ ~computeFiles.path1.readable) =>
           ret.err.kind = "read path1"
    /\ (pc = "done" /\ computeFiles.called /\ computeFiles.path1.readable
          /\ ~computeFiles.path2.readable) => ret.err.kind = "read path2"
    /\ (computeFiles.called /\ log.decoded # <<>>) =>
           /\ computeFiles.tried = <<1, 2>>
           /\ computeFiles.path1.readable
           /\ computeFiles.path2.readable
    /\ ret.err.kind = "decode first" =>
           /\ log.decoded = <<1>>
           /\ DecodeFails(image1Bytes)
           /\ log.dimChecks = 0
    /\ ret.err.kind = "decode second" =>
           /\ log.decoded = <<1, 2>>
           /\ ~DecodeFails(image1Bytes)
           /\ DecodeFails(image2Bytes)
           /\ log.dimChecks = 0
    /\ (pc = "done" /\ log.decoded # <<>> /\ DecodeFails(image1Bytes)) =>
           ret.err.kind = "decode first"
    /\ (pc = "done" /\ log.decoded # <<>> /\ ~DecodeFails(image1Bytes)
          /\ DecodeFails(image2Bytes)) => ret.err.kind = "decode second"
    /\ (log.dimChecks > 0 \/ ret.err.kind = "different dimensions") =>
           /\ log.decoded = <<1, 2>>
           /\ log.dimChecks = 1
           /\ ~DecodeFails(image1Bytes)
           /\ ~DecodeFails(image2Bytes)
           /\ img1 = Decode(image1Bytes)
           /\ img2 = Decode(image2Bytes)
    /\ (pc = "done" /\ log.decoded = <<1, 2>> /\ ~DecodeFails(image2Bytes)
          /\ DimensionsDiffer(img1, img2)) => ret.err.kind = "different dimensions"

\* ComputeFiles has returned the decode error of the first file although the
\* second file cannot be decoded either: both were read, one was decoded
C25_Witness ==
    /\ pc = "done"
    /\ computeFiles.called
    /\ computeFiles.tried = <<1, 2>>
    /\ DecodeFails(image1Bytes)
    /\ DecodeFails(image2Bytes)
    /\ log.decoded = <<1>>
    /\ ret.err = ErrDecodeFirst
====
